---- MODULE Spec2Model ----
(***************************************************************************)
(* State-machine model of the two L1B streaming extractors of cveureka:    *)
(*   AlsLoader.extract_to_database     (src/src/load/l1b/als.py)           *)
(*   AsirasLoader.extract_to_database  (src/src/load/l1b/asiras.py)        *)
(* together with the header parser and block decoder they drive, and of    *)
(* the waveform processing of src/src/process:                             *)
(*   lin_interp_from_first_max, calc_tfmra_elevation  (process/tools.py)   *)
(*   create_tfmra_table, create_wshape_table          (process/process.py) *)
(*                                                                         *)
(* One behaviour is one call of extract_to_database on one input file, or  *)
(* one call of one of the process functions on one set of arguments.       *)
(* The sink (postgis Session) is modelled by the log of the calls made on  *)
(* it, the logger by the list of the reports it was handed.                *)
(*                                                                         *)
(* Representation choices                                                  *)
(*   - a bytes object and a str are sequences of codes, 0..255 and the     *)
(*     code points; the bytes of an ASIRAS file are given by ByteAt; an    *)
(*     unpacked integer is kept as its big-endian numeral;                 *)
(*   - a double of an ALS file is [nan |-> BOOLEAN, v |-> Int];            *)
(*   - a product value * scale with scale # 1 is kept exact as             *)
(*     [raw |-> value, scale |-> "1e-7"], not rounded to a float;          *)
(*   - a float64 of the process functions is [c, s, m, e]: the number      *)
(*     (-1)^s * m * 2^e with an m of 53 bits or fewer, an infinity or nan; *)
(*     every operation gives the float64 nearest to its exact result.      *)
(***************************************************************************)
EXTENDS Integers, Sequences, FiniteSets, TLC

VARIABLES
    loader,     \* "als" or "asiras": which extract_to_database is running
    args,       \* the keyword arguments of the call
    file,       \* the input file (never written)
    cursor,     \* the file object's position, in bytes from the start
    pc,         \* the position of the call in its code
    session,    \* the calls made on the sink so far, in order
    log,        \* the progress and summary reports handed to the logger
    error,      \* the exception that ended the call, and where it was raised
    als,        \* the locals of AlsLoader.extract_to_database
    asiras,     \* the locals of AsirasLoader.extract_to_database
    proc        \* the locals of the call of a function of src/src/process

vars == <<loader, args, file, cursor, pc, session, log, error, als, asiras, proc>>

(***************************************************************************)
(* Bounds of the model.                                                    *)
(***************************************************************************)
MaxLines == 7          \* num_lines of an ALS file ranges over 0..MaxLines
MaxLinesToBuffer == 3  \* lines_to_buffer ranges over 1..MaxLinesToBuffer
MaxPoints == 3         \* points_per_line ranges over 1..MaxPoints
NanSpan == 12          \* the first NaN of an ALS file is among its doubles 0..NanSpan
MaxCut == 1            \* an ALS file lacks 0..MaxCut doubles at its end,
                       \* an ASIRAS file 0..MaxCut bytes
MaxBlocks == 3         \* NUM_DSR of the ASIRAS dataset ranges over 0..MaxBlocks
MaxBlocksToBuffer == 2 \* blocks_to_buffer ranges over 1..MaxBlocksToBuffer

NoError == [type |-> "", at |-> ""]
NoLocals == <<>>

\* an exception of the given type leaves the call from the step named at
Raise(type, at) ==
    /\ error' = [type |-> type, at |-> at]
    /\ pc' = "error"

\* an exception raised by the unpack of a field of the input file: field
\* tells which one, <<line, array>> of an ALS file and <<block, group, row,
\* field>> of an ASIRAS file, lines and arrays counted from 0 as range()
\* does, blocks from 1 as block_num is, the others from 1
RaiseAt(type, at, field) ==
    /\ error' = [type |-> type, at |-> at, field |-> field]
    /\ pc' = "error"

Min(a, b) == IF a <= b THEN a ELSE b
Max(a, b) == IF a >= b THEN a ELSE b

RECURSIVE SumSeq(_)
SumSeq(s) == IF s = <<>> THEN 0 ELSE Head(s) + SumSeq(Tail(s))

RECURSIVE Flatten(_)
Flatten(ss) == IF ss = <<>> THEN <<>> ELSE Head(ss) \o Flatten(Tail(ss))

SelectOp(s, op) == SelectSeq(s, LAMBDA c : c.op = op)

\* the positions in the call sequence of the sink of the calls of one kind
CallsOf(op) == {i \in 1..Len(session) : session[i].op = op}

(***************************************************************************)
(* struct: sizes of the format characters used by the two loaders.         *)
(***************************************************************************)
TypeSize(t) ==
    CASE t \in {"x", "B"} -> 1
      [] t \in {"h", "H"} -> 2
      [] t \in {"l", "L"} -> 4
      [] t \in {"q", "d"} -> 8

\* the size of a format with every item taken as 4 bytes wide: a variant
\* that steps through an array of doubles at half its width
calcsize_FourBytes(read_format) == read_format.count * 4

calcsize(read_format) == read_format.count * TypeSize(read_format.type)

(***************************************************************************)
(*                               ALS                                       *)
(***************************************************************************)
NaN == [nan |-> TRUE, v |-> 0]
Num(x) == [nan |-> FALSE, v |-> x]
isnan(x) == x.nan

\* als.py:39-42 the defaults of the format arguments
AlsHeaderFormat == <<[count |-> 1, type |-> "B"], [count |-> 1, type |-> "L"],
                     [count |-> 1, type |-> "B"]>>
theader_line_bytes == 4

AlsHeaderSize == SumSeq([i \in 1..Len(AlsHeaderFormat) |-> calcsize(AlsHeaderFormat[i])])

\* An ALS file: the three header values read by ">BLB", and the doubles that
\* follow the header and the per-line timestamp table, in file order.
AlsDataStart(f) == f.header[1] + theader_line_bytes * f.header[2]
AlsFileSize(f) == AlsDataStart(f) + 8 * Len(f.data)

\* file.read(n) of n = 8 * count bytes at byte position pos of the data section:
\* the doubles that lie entirely before the end of the file, and whether
\* all n bytes were there
AlsRead(f, pos, n) ==
    LET first == (pos - AlsDataStart(f)) \div 8
        avail == Max(0, Min(n, AlsFileSize(f) - pos))
    IN [values |-> SubSeq(f.data, first + 1, first + (avail \div 8)),
        nbytes |-> avail]

\* the line loop with all() for any() in the filter: a variant that drops a
\* point only when its three values are NaN
AlsLine_AllNaN(f, pos, field_bytes) ==
    LET lat == AlsRead(f, pos + field_bytes, field_bytes)
        lon == AlsRead(f, pos + 2 * field_bytes, field_bytes)
        elv == AlsRead(f, pos + 3 * field_bytes, field_bytes)
        ok == /\ lat.nbytes = field_bytes
              /\ lon.nbytes = field_bytes
              /\ elv.nbytes = field_bytes
        n == IF ok THEN Len(elv.values) ELSE 0
        rows == [i \in 1..n |-> <<elv.values[i], lon.values[i], lat.values[i]>>]
    IN [ok |-> ok,
        array |-> IF lat.nbytes # field_bytes THEN 1
                  ELSE IF lon.nbytes # field_bytes THEN 2 ELSE 3,
        rows |-> SelectSeq(rows, LAMBDA row :
                     ~(isnan(row[1]) /\ isnan(row[2]) /\ isnan(row[3]))),
        cursor |-> pos + field_bytes
                       + lat.nbytes
                       + (IF lat.nbytes = field_bytes THEN lon.nbytes ELSE 0)
                       + (IF lat.nbytes = field_bytes /\ lon.nbytes = field_bytes
                          THEN elv.nbytes ELSE 0)]

\* one iteration of the line loop up to the end of the NaN filter, as a
\* function of the file and the position: als.py:117-130
AlsLine(f, pos, field_bytes) ==
    LET lat == AlsRead(f, pos + field_bytes, field_bytes)
        lon == AlsRead(f, pos + 2 * field_bytes, field_bytes)
        elv == AlsRead(f, pos + 3 * field_bytes, field_bytes)
        ok == /\ lat.nbytes = field_bytes
              /\ lon.nbytes = field_bytes
              /\ elv.nbytes = field_bytes
        n == IF ok THEN Len(elv.values) ELSE 0
        rows == [i \in 1..n |-> <<elv.values[i], lon.values[i], lat.values[i]>>]
    IN [ok |-> ok,
        array |-> IF lat.nbytes # field_bytes THEN 1
                  ELSE IF lon.nbytes # field_bytes THEN 2 ELSE 3,
        rows |-> SelectSeq(rows, LAMBDA row :
                     ~(isnan(row[1]) \/ isnan(row[2]) \/ isnan(row[3]))),
        cursor |-> pos + field_bytes
                       + lat.nbytes
                       + (IF lat.nbytes = field_bytes THEN lon.nbytes ELSE 0)
                       + (IF lat.nbytes = field_bytes /\ lon.nbytes = field_bytes
                          THEN elv.nbytes ELSE 0)]

AlsLocals0 ==
    [header_bytes |-> 0, num_lines |-> 0, points_per_line |-> 0,
     field_bytes |-> 0, buffer |-> <<>>, buffer_id |-> 0, line_num |-> 0,
     lines_buffered |-> 0, lines_written |-> 0,
     points_buffered |-> 0, points_written |-> 0, expected_points |-> 0]

\* The input files: num_lines lines of points_per_line points, the
\* k-th double of the data section (from 0) being NaN when k is in nans and
\* the number k otherwise, with the last cut doubles missing.
AlsFile(n, p, cut, nans) ==
    [header |-> <<36, n, p>>,
     data |-> [k \in 1..Max(0, 4 * n * p - cut) |->
                  IF (k - 1) \in nans THEN NaN ELSE Num(k - 1)]]

\* no NaN, one NaN, or two NaN that are p doubles apart (the same point in
\* two neighbouring arrays of a line)
AlsNanSets(p) == {{}} \cup {{a, a + d} : a \in 0..NanSpan, d \in {0, p}}

\* every file of n lines of p points comes whole and with the last
\* 1..MaxCut doubles missing; a file of two lines comes with every number of
\* doubles of its second line missing
AlsFiles ==
    UNION { { AlsFile(n, p, cut, nans) : nans \in AlsNanSets(p) } :
            n \in 0..MaxLines, p \in 1..MaxPoints, cut \in 0..MaxCut }
        \cup UNION { { AlsFile(2, p, cut, {}) : cut \in 0..(4 * p) } : p \in 1..2 }

\* als.py:54-69
AlsCreateTable ==
    /\ loader = "als" /\ pc = "create_table"
    /\ session' = session \o
         << [op |-> "create_table", table |-> args.output_table,
             columns |-> << <<args.col_oid, "bigserial PRIMARY KEY">>,
                            <<args.col_elvtn, "double precision">> >>],
            [op |-> "add_geom_col", table |-> args.output_table,
             srid |-> args.srid_output, column |-> args.col_geom] >>
    /\ pc' = "header"
    /\ UNCHANGED <<proc, loader, args, file, cursor, log, error, als, asiras>>

\* als.py:72-110
AlsReadHeader ==
    /\ loader = "als" /\ pc = "header"
    /\ LET header_bytes == file.header[1]
           num_lines == file.header[2]
           points_per_line == file.header[3]
           theader_bytes == theader_line_bytes * num_lines
       IN /\ als' = [als EXCEPT
                 !.header_bytes = header_bytes,
                 !.num_lines = num_lines,
                 !.points_per_line = points_per_line,
                 !.field_bytes = calcsize([count |-> points_per_line, type |-> "d"]),
                 !.buffer = <<>>, !.buffer_id = @ + 1,
                 !.line_num = 0,
                 !.lines_buffered = 0, !.lines_written = 0,
                 !.points_buffered = 0, !.points_written = 0,
                 !.expected_points = num_lines * points_per_line]
          /\ cursor' = header_bytes + theader_bytes
    /\ pc' = "loop"
    /\ UNCHANGED <<proc, loader, args, file, session, log, error, asiras>>

\* als.py:113-132, a line that is all there
AlsReadLine ==
    /\ loader = "als" /\ pc = "loop" /\ als.line_num < als.num_lines
    /\ LET r == AlsLine(file, cursor, als.field_bytes)
       IN /\ r.ok
          /\ cursor' = r.cursor
          /\ als' = [als EXCEPT
                 !.buffer = @ \o r.rows,
                 !.points_buffered = @ + Len(r.rows),
                 !.lines_buffered = @ + 1]
    /\ pc' = "check"
    /\ UNCHANGED <<proc, loader, args, file, session, log, error, asiras>>

\* als.py:121-123, unpack of fewer bytes than field_bytes raises struct.error
AlsReadLineError ==
    /\ loader = "als" /\ pc = "loop" /\ als.line_num < als.num_lines
    /\ LET r == AlsLine(file, cursor, als.field_bytes)
       IN /\ ~r.ok
          /\ cursor' = r.cursor
          /\ RaiseAt("struct.error", "read_line", <<als.line_num, r.array>>)
    /\ UNCHANGED <<proc, loader, args, file, session, log, als, asiras>>

\* the flush test without its end-of-file half: a variant that leaves the
\* lines after the last full batch unwritten
AlsFlushCondition_FullOnly ==
    als.lines_buffered >= args.lines_to_buffer

\* als.py:134-135
AlsFlushCondition ==
    \/ als.lines_buffered >= args.lines_to_buffer
    \/ als.line_num >= als.num_lines - 1

\* the flush without the reset of the buffer (als.py:140 left out): a
\* variant that hands the rows of a batch to the sink again with the next
AlsFlush_KeepBuffer ==
    /\ loader = "als" /\ pc = "check" /\ AlsFlushCondition
    /\ session' = Append(session,
           [op |-> "insert", table |-> args.output_table, rows |-> als.buffer,
            target_cols |-> <<args.col_elvtn, args.col_geom>>,
            lines |-> als.lines_buffered, list |-> als.buffer_id])
    /\ als' = [als EXCEPT
           !.points_written = @ + als.points_buffered,
           !.points_buffered = 0,
           !.lines_written = @ + als.lines_buffered,
           !.lines_buffered = 0,
           !.line_num = @ + 1]
    /\ log' = Append(log, [event |-> "written",
                           written |-> als.lines_written + als.lines_buffered,
                           total |-> als.num_lines])
    /\ pc' = "loop"
    /\ UNCHANGED <<proc, loader, args, file, cursor, error, asiras>>

\* als.py:137-147.  The fields lines and list of the call record are
\* bookkeeping of the model: the lines the call covers and the identity of
\* the list object handed over.
AlsFlush ==
    /\ loader = "als" /\ pc = "check" /\ AlsFlushCondition
    /\ session' = Append(session,
           [op |-> "insert", table |-> args.output_table, rows |-> als.buffer,
            target_cols |-> <<args.col_elvtn, args.col_geom>>,
            lines |-> als.lines_buffered, list |-> als.buffer_id])
    /\ als' = [als EXCEPT
           !.buffer = <<>>, !.buffer_id = @ + 1,
           !.points_written = @ + als.points_buffered,
           !.points_buffered = 0,
           !.lines_written = @ + als.lines_buffered,
           !.lines_buffered = 0,
           !.line_num = @ + 1]
    /\ log' = Append(log, [event |-> "written",
                           written |-> als.lines_written + als.lines_buffered,
                           total |-> als.num_lines])
    /\ pc' = "loop"
    /\ UNCHANGED <<proc, loader, args, file, cursor, error, asiras>>

AlsNoFlush ==
    /\ loader = "als" /\ pc = "check" /\ ~AlsFlushCondition
    /\ als' = [als EXCEPT !.line_num = @ + 1]
    /\ pc' = "loop"
    /\ UNCHANGED <<proc, loader, args, file, cursor, session, log, error, asiras>>

\* als.py:149-155
AlsFinish ==
    /\ loader = "als" /\ pc = "loop" /\ als.line_num >= als.num_lines
    /\ log' = Append(log, [event |-> "finished",
                           lines_written |-> als.lines_written,
                           num_lines |-> als.num_lines,
                           points_written |-> als.points_written,
                           expected_points |-> als.expected_points,
                           filtered |-> als.expected_points - als.points_written])
    /\ pc' = "done"
    /\ UNCHANGED <<proc, loader, args, file, cursor, session, error, als, asiras>>

(***************************************************************************)
(*                        bytes and str                                    *)
(* A bytes object is the sequence of its bytes, 0..255, and a str the      *)
(* sequence of the codes of its characters; Codes writes one of either.    *)
(***************************************************************************)
\* the characters of the codes 32..95 and 97..126, in the order of the codes
Printable ==
    << " !\"#$%&'()*+,-./0123456789:;<=>?@ABCDEFGHIJKLMNOPQRSTUVWXYZ[\\]^_",
       "abcdefghijklmnopqrstuvwxyz{|}~" >>

\* ord(c) of the characters that a string of the model can hold
OrdTable ==
    [c \in {SubSeq(Printable[1], i, i) : i \in 1..Len(Printable[1])} |->
        31 + (CHOOSE i \in 1..Len(Printable[1]) : SubSeq(Printable[1], i, i) = c)]
    @@ [c \in {SubSeq(Printable[2], i, i) : i \in 1..Len(Printable[2])} |->
        96 + (CHOOSE i \in 1..Len(Printable[2]) : SubSeq(Printable[2], i, i) = c)]
    @@ [c \in {"\t", "\n", "\f", "\r", "ÿ"} |->
          CASE c = "\t" -> 9 [] c = "\n" -> 10 [] c = "\f" -> 12
            [] c = "\r" -> 13 [] c = "ÿ" -> 255]

ord(c) == OrdTable[c]

\* the codes of the characters of a string
Codes(s) == [i \in 1..Len(s) |-> ord(SubSeq(s, i, i))]

\* str(n) of an integer
str(n) == Codes(ToString(n))

(***************************************************************************)
(*                        ASIRAS: configuration                            *)
(* asiras_config.py                                                        *)
(***************************************************************************)
header_encoding == "ASCII"
mph_bytes == 1247
sph_bytes == 1112
dsh_bytes == 280
cg_bytes == 64
awg_bytes == 556
rows_per_block == 20
dsh_count_key == Codes("NUM_DSD")
dsh_name_key == Codes("DS_NAME")
dsh_offset_key == Codes("DS_OFFSET")
dsh_blocks_key == Codes("NUM_DSR")
dsh_asiras_prefix == Codes("ASI")
skip_field == "~"
type_int == "bigint"
type_float == "double precision"

\* a row of fields_format: name, read type (struct), write type (psql),
\* scale, count.  A scale other than 1 is kept as the text of its literal.
Field(name, read_type, write_type, scale, count) ==
    [name |-> name, read_type |-> read_type, write_type |-> write_type,
     scale |-> scale, count |-> count]

\* asiras_config.py:36-91, the groups in the order of the dict
fields_format == <<
    \* tog: time and orbit group
    << Field("days", "l", type_int, "1", 1),
       Field("seconds", "L", type_int, "1", 1),
       Field("microseconds", "L", type_int, "1", 1),
       Field(skip_field, "x", "None", "1", 8),
       Field("instrument_config", "L", type_int, "1", 1),
       Field("burst_counter", "L", type_int, "1", 1),
       Field("latitude", "l", type_float, "1e-7", 1),
       Field("longitude", "l", type_float, "1e-7", 1),
       Field("altitude", "l", type_float, "1e-3", 1),
       Field("altitude_rate", "l", type_float, "1e-6", 1),
       Field("velocity_xyz", "l", type_float, "1e-3", 3),
       Field("beam_direction_xyz", "l", type_float, "1e-6", 3),
       Field("interferometer_baseline_xyz", "l", type_float, "1e-6", 3),
       Field("confidence_data", "L", type_int, "1", 1) >>,
    \* mg: measurements group
    << Field("window_delay", "q", type_float, "1e-12", 1),
       Field(skip_field, "x", "None", "1", 4),
       Field("ocog_width", "l", type_float, "1e-2", 1),
       Field("retracker_range", "l", type_float, "1e-3", 1),
       Field("surface_elvtn", "l", type_float, "1e-3", 1),
       Field("agc_ch1", "l", type_float, "1e-2", 1),
       Field("agc_ch2", "l", type_float, "1e-2", 1),
       Field("tfg_ch1", "l", type_float, "1e-2", 1),
       Field("tfg_ch2", "l", type_float, "1e-2", 1),
       Field("transmit_power", "l", type_float, "1e-6", 1),
       Field("doppler_range", "l", type_float, "1e-3", 1),
       Field("instr_range_corr_ch1", "l", type_float, "1e-3", 1),
       Field("instr_range_corr_ch2", "l", type_float, "1e-3", 1),
       Field(skip_field, "x", "None", "1", 8),
       Field("intern_phase_corr", "l", type_float, "1e-6", 1),
       Field("extern_phase_corr", "l", type_float, "1e-6", 1),
       Field("noise_power", "l", type_float, "1e-2", 1),
       Field("roll", "h", type_float, "1e-3", 1),
       Field("pitch", "h", type_float, "1e-3", 1),
       Field("yaw", "h", type_float, "1e-3", 1),
       Field(skip_field, "x", "None", "1", 2),
       Field("heading", "l", type_float, "1e-3", 1),
       Field("std_roll", "H", type_float, "1e-4", 1),
       Field("std_pitch", "H", type_float, "1e-4", 1),
       Field("std_yaw", "H", type_float, "1e-4", 1) >>,
    \* mwg: multilooked waveform group
    << Field("ml_power_echo", "H", type_int, "1", 256),
       Field("linear_scale_factor", "l", type_int, "1", 1),
       Field("power2_scale_factor", "l", type_int, "1", 1),
       Field("num_ml_power_echoes", "H", type_int, "1", 1),
       Field("flags", "H", "integer", "1", 1),
       Field("beam_behaviour", "H", type_int, "1", 50) >> >>

(***************************************************************************)
(*                        ASIRAS: header parser                            *)
(***************************************************************************)
\* s[i - 1], the code at position i from 1, and -1 outside s
CharAt(s, i) == IF i >= 1 /\ i <= Len(s) THEN s[i] ELSE -1

\* bytes.decode(header_encoding): a byte under 128 is the character of the
\* same code, any other byte raises UnicodeDecodeError
decode(bytes) ==
    IF \A i \in 1..Len(bytes) : bytes[i] < 128
    THEN [ok |-> TRUE, text |-> bytes]
    ELSE [ok |-> FALSE, text |-> <<>>]

\* least position >= i of s whose code is not in (stop = FALSE) or is in
\* (stop = TRUE) the set chars; Len(s) + 1 when there is none
RunEnd(s, i, chars, stop) ==
    LET ends == {j \in i..Len(s) : (s[j] \in chars) = stop}
    IN IF ends = {} THEN Max(i, Len(s) + 1)
       ELSE CHOOSE j \in ends : \A k \in ends : j <= k

\* asiras_config.py:14-17  header_regex, with re.I, matched at position i:
\*     ([a-z_]+)="?([^\n<>"]+)(?:<[^\n<>]+>)?"?\n
\* Every repetition is followed by a character outside its class, so the
\* greedy match is the only one.
KeyChars == (ord("a")..ord("z")) \cup (ord("A")..ord("Z")) \cup {ord("_")}

header_regex_match(s, i) ==
    LET k == RunEnd(s, i, KeyChars, FALSE)                   \* ([a-z_]+)
        v0 == IF CharAt(s, k + 1) = ord("\"") THEN k + 2 ELSE k + 1  \* ="?
        v1 == RunEnd(s, v0, {ord("\n"), ord("<"), ord(">"), ord("\"")},
                     TRUE)                                   \* ([^\n<>"]+)
        a1 == RunEnd(s, v1 + 1, {ord("\n"), ord("<"), ord(">")},
                     TRUE)                                   \* <[^\n<>]+>
        note == CharAt(s, v1) = ord("<")
        p == IF note THEN a1 + 1 ELSE v1
        q == IF CharAt(s, p) = ord("\"") THEN p + 1 ELSE p   \* "?
    IN IF /\ k > i /\ CharAt(s, k) = ord("=")
          /\ v1 > v0
          /\ note => (a1 > v1 + 1 /\ CharAt(s, a1) = ord(">"))
          /\ CharAt(s, q) = ord("\n")
       THEN [ok |-> TRUE, g1 |-> SubSeq(s, i, k - 1),
             g2 |-> SubSeq(s, v0, v1 - 1), end |-> q + 1]
       ELSE [ok |-> FALSE, g1 |-> <<>>, g2 |-> <<>>, end |-> i]

\* header_regex.finditer(string): the matches from left to right, each
\* search starting where the previous match ended.  A match starts where
\* a run of key characters starts; starts is the set of those positions
\* of s at which the expression matches.
MatchStarts(s) ==
    {i \in 1..Len(s) :
        /\ s[i] \in KeyChars
        /\ CharAt(s, i - 1) \notin KeyChars
        /\ header_regex_match(s, i).ok}

RECURSIVE NextMatches(_, _, _)
NextMatches(s, starts, pos) ==
    LET later == {i \in starts : i >= pos}
    IN IF later = {} THEN <<>>
       ELSE LET i == CHOOSE j \in later : \A k \in later : j <= k
                m == header_regex_match(s, i)
            IN <<m>> \o NextMatches(s, starts, m.end)

finditer(s) == NextMatches(s, MatchStarts(s), 1)

\* the white space of str.strip(): the characters of the codes 9..13,
\* 28..32, 133 and 160, of those under 256
Whitespace == (9..13) \cup (28..32) \cup {133, 160}

\* str.strip()
strip(s) ==
    LET inner == {i \in 1..Len(s) : s[i] \notin Whitespace}
    IN IF inner = {} THEN <<>>
       ELSE SubSeq(s, CHOOSE i \in inner : \A k \in inner : i <= k,
                      CHOOSE j \in inner : \A k \in inner : j >= k)

\* asiras.py:73-82  the dict of the matches; a later match of a key
\* replaces an earlier one.  The key is the text matched, in its own case.
RECURSIVE DictOf(_)
DictOf(matches) ==
    IF matches = <<>> THEN <<>>
    ELSE LET m == matches[Len(matches)]
             rest == DictOf(SubSeq(matches, 1, Len(matches) - 1))
         IN [key \in DOMAIN rest \cup {m.g1} |->
                IF key = m.g1 THEN strip(m.g2) ELSE rest[key]]

\* str.upper() of a text of the codes under 128
UpperCase(s) ==
    [i \in 1..Len(s) |->
        IF s[i] \in ord("a")..ord("z") THEN s[i] - ord("a") + ord("A") ELSE s[i]]

\* the dict with every key in upper case: a variant that folds the case of
\* the keys, as a case-insensitive map would
_parse_product_header_Upper(string) ==
    DictOf([i \in 1..Len(finditer(string)) |->
              [finditer(string)[i] EXCEPT !.g1 = UpperCase(@)]])

_parse_product_header(string) == DictOf(finditer(string))

startswith(s, prefix) ==
    Len(s) >= Len(prefix) /\ SubSeq(s, 1, Len(prefix)) = prefix

\* the value of a text of digits and underscores
RECURSIVE DigitsValue(_, _)
DigitsValue(s, acc) ==
    IF s = <<>> THEN acc
    ELSE IF Head(s) = ord("_") THEN DigitsValue(Tail(s), acc)
    ELSE DigitsValue(Tail(s), 10 * acc + (Head(s) - ord("0")))

\* int(s): the white space of int at both ends dropped (the characters of
\* the codes 9..13, 32, 133 and 160, of those under 256), an optional sign,
\* then digits with single underscores allowed between them; anything else
\* raises ValueError
int(s) ==
    LET space == (9..13) \cup {32, 133, 160}
        inner == {i \in 1..Len(s) : s[i] \notin space}
        t == IF inner = {} THEN <<>>
             ELSE SubSeq(s, CHOOSE i \in inner : \A k \in inner : i <= k,
                            CHOOSE j \in inner : \A k \in inner : j >= k)
        digit(c) == c \in ord("0")..ord("9")
        signed == CharAt(t, 1) \in {ord("+"), ord("-")}
        body == IF signed THEN SubSeq(t, 2, Len(t)) ELSE t
        wellformed ==
            /\ body # <<>>
            /\ \A i \in 1..Len(body) :
                 \/ digit(body[i])
                 \/ /\ body[i] = ord("_")
                    /\ digit(CharAt(body, i - 1))
                    /\ digit(CharAt(body, i + 1))
    IN IF ~wellformed THEN [ok |-> FALSE, value |-> 0]
       ELSE [ok |-> TRUE,
             value |-> IF CharAt(t, 1) = ord("-") THEN 0 - DigitsValue(body, 0)
                       ELSE DigitsValue(body, 0)]

(***************************************************************************)
(*                        ASIRAS: the input file                           *)
(* An ASIRAS file is                                                       *)
(*   [mph |-> bytes, dsh |-> <<bytes, ...>>, seed |-> 0..255, size |-> Nat]*)
(* the main product header block (its bytes, then blanks up to mph_bytes), *)
(* the specific product header block (sph_bytes blanks), one block of      *)
(* dsh_bytes per dataset header (its bytes, then blanks), then the payload,*)
(* whose byte at position p is ByteAt(f, p); size is the length in bytes.  *)
(***************************************************************************)
\* the byte at position i from 0 of a block that holds text and then blanks
Padded(text, i) == IF i < Len(text) THEN text[i + 1] ELSE ord(" ")

HeaderEnd(f) == mph_bytes + sph_bytes + dsh_bytes * Len(f.dsh)

\* the byte at position p, from 0, of the file
ByteAt(f, p) ==
    IF p < mph_bytes THEN Padded(f.mph, p)
    ELSE IF p < mph_bytes + sph_bytes THEN ord(" ")
    ELSE IF p < HeaderEnd(f)
    THEN Padded(f.dsh[(p - mph_bytes - sph_bytes) \div dsh_bytes + 1],
                (p - mph_bytes - sph_bytes) % dsh_bytes)
    ELSE (f.seed + 7 * (p - HeaderEnd(f))) % 256

\* file.read(n) at position pos: the bytes from there, n of them or as many
\* as are left; at or after the end of the file none, without error
FileRead(f, pos, n) ==
    [i \in 1..Max(0, Min(n, f.size - pos)) |-> ByteAt(f, pos + i - 1)]

(***************************************************************************)
(*                        ASIRAS: block decoder                            *)
(***************************************************************************)
\* the column list without the count of an array field in its type: a
\* variant that declares a scalar column for a list of values
_build_column_config_NoSuffix ==
    LET rows == SelectSeq(Flatten(fields_format),
                          LAMBDA row : row.name # skip_field)
    IN [i \in 1..Len(rows) |-> <<rows[i].name, rows[i].write_type>>]

\* asiras.py:24-53
_build_column_config ==
    LET rows == SelectSeq(Flatten(fields_format),
                          LAMBDA row : row.name # skip_field)
    IN [i \in 1..Len(rows) |->
          <<rows[i].name,
            IF rows[i].count > 1
            THEN rows[i].write_type \o "[" \o ToString(rows[i].count) \o "]"
            ELSE rows[i].write_type>>]

\* the rules with the count left out of the format of a filler field: a
\* variant that skips one byte where the table declares several
_get_group_read_rules_FillerOne(byte_order) ==
    [g \in 1..Len(fields_format) |->
       [i \in 1..Len(fields_format[g]) |->
          LET fld == fields_format[g][i]
              read_format == [byte_order |-> byte_order,
                              count |-> IF fld.count > 1 /\ fld.name # skip_field
                                        THEN fld.count ELSE 1,
                              type |-> fld.read_type]
          IN [size |-> calcsize(read_format),
              save_output |-> fld.name # skip_field,
              read_format |-> read_format,
              multi |-> fld.count > 1,
              scale |-> fld.scale]]]

\* asiras.py:84-106  one rule per field:
\* (size, save_output, read_format, multi, scale)
_get_group_read_rules(byte_order) ==
    [g \in 1..Len(fields_format) |->
       [i \in 1..Len(fields_format[g]) |->
          LET fld == fields_format[g][i]
              read_format == [byte_order |-> byte_order,
                              count |-> IF fld.count > 1 THEN fld.count ELSE 1,
                              type |-> fld.read_type]
          IN [size |-> calcsize(read_format),
              save_output |-> fld.name # skip_field,
              read_format |-> read_format,
              multi |-> fld.count > 1,
              scale |-> fld.scale]]]

\* unpack that takes the bytes that are missing as zero: a variant that
\* raises nothing at the end of the file
unpack_ZeroPad(read_format, bytes) ==
    LET w == TypeSize(read_format.type)
        all == [k \in 1..calcsize(read_format) |->
                  IF k <= Len(bytes) THEN bytes[k] ELSE 0]
    IN [ok |-> TRUE,
        value |-> IF read_format.type = "x" THEN <<>>
                  ELSE [k \in 1..read_format.count |->
                          [type |-> read_format.type,
                           bytes |-> SubSeq(all, (k - 1) * w + 1, k * w)]]]

\* struct.unpack(read_format, bytes): struct.error unless bytes has exactly
\* the size of the format.  An item is the integer that its bytes spell,
\* big-endian, two's complement for the signed types h, l and q; it is kept
\* as that numeral, [type |-> t, bytes |-> <<b1, ..., bw>>], because the
\* 4- and 8-byte values do not fit the integers of the model checker.
unpack(read_format, bytes) ==
    LET w == TypeSize(read_format.type)
    IN IF Len(bytes) # calcsize(read_format)
       THEN [ok |-> FALSE, value |-> <<>>]
       ELSE [ok |-> TRUE,
             value |-> IF read_format.type = "x" THEN <<>>
                       ELSE [k \in 1..read_format.count |->
                               [type |-> read_format.type,
                                bytes |-> SubSeq(bytes, (k - 1) * w + 1, k * w)]]]

Scaled(v, scale) == [raw |-> v, scale |-> scale]

\* asiras.py:119-130  what a saved field appends to the row
RowItem(rule, value) ==
    IF rule.multi
    THEN IF rule.scale # "1"
         THEN [k \in 1..Len(value) |-> Scaled(value[k], rule.scale)]
         ELSE value
    ELSE IF rule.scale # "1"
         THEN Scaled(value[1], rule.scale)
         ELSE value[1]

\* asiras.py:116-132  the fields of one row, read in turn from position pos
RECURSIVE ReadRow(_, _, _, _)
ReadRow(f, pos, rules, row) ==
    IF rules = <<>> THEN [ok |-> TRUE, row |-> row, cursor |-> pos, left |-> 0]
    ELSE LET rule == Head(rules)
             bytes == FileRead(f, pos, rule.size)
             after == pos + Len(bytes)
         IN IF rule.save_output
            THEN LET got == unpack(rule.read_format, bytes)
                 IN IF got.ok
                    THEN ReadRow(f, after, Tail(rules),
                                 Append(row, RowItem(rule, got.value)))
                    ELSE [ok |-> FALSE, row |-> row, cursor |-> after,
                          left |-> Len(rules)]
            ELSE ReadRow(f, after, Tail(rules), row)

\* asiras.py:108-134  rows_per_block rows of one group
RECURSIVE ReadRows(_, _, _, _, _)
ReadRows(f, pos, rules, n, buffer) ==
    IF n = 0 THEN [ok |-> TRUE, buffer |-> buffer, cursor |-> pos,
                     row |-> rows_per_block, field |-> 0]
    ELSE LET r == ReadRow(f, pos, rules, <<>>)
         IN IF r.ok
            THEN ReadRows(f, r.cursor, rules, n - 1, Append(buffer, r.row))
            ELSE [ok |-> FALSE, buffer |-> buffer, cursor |-> r.cursor,
                  row |-> rows_per_block - n + 1,
                  field |-> Len(rules) - r.left + 1]

_read_block_group(f, pos, rules) == ReadRows(f, pos, rules, rows_per_block, <<>>)

(***************************************************************************)
(*                 ASIRAS: AsirasLoader.extract_to_database                *)
(***************************************************************************)
\* the declared width of one row of group g, from fields_format alone
GroupStride(g) ==
    SumSeq([i \in 1..Len(fields_format[g]) |->
              TypeSize(fields_format[g][i].read_type) * fields_format[g][i].count])

\* the bytes of one block: rows_per_block rows of each of the three decoded
\* groups, and the corrections and average waveform groups between them
BlockBytes ==
    rows_per_block * (GroupStride(1) + GroupStride(2) + GroupStride(3))
        + cg_bytes + awg_bytes

\* where field i of a row of group g begins in the row, and where group g
\* begins in its block, by the declared widths
FieldOffset(g, i) ==
    SumSeq([k \in 1..(i - 1) |->
              TypeSize(fields_format[g][k].read_type) * fields_format[g][k].count])

GroupOffset(g) ==
    IF g = 1 THEN 0
    ELSE IF g = 2 THEN rows_per_block * GroupStride(1)
    ELSE rows_per_block * (GroupStride(1) + GroupStride(2)) + cg_bytes + awg_bytes

None == [none |-> TRUE, index |-> 0, map |-> <<>>]

AsirasLocals0 ==
    [target_cols |-> <<>>, mph |-> <<>>, dsh_count |-> 0, dsh |-> <<>>,
     asiras_dsh |-> None, num_blocks |-> 0, start_bytes |-> 0,
     tog |-> <<>>, mg |-> <<>>, buffer |-> <<>>, buffer_id |-> 0, block_num |-> 0,
     blocks_buffered |-> 0, blocks_written |-> 0,
     rows_buffered |-> 0, rows_written |-> 0,
     expected_rows |-> 0, expected_rows_bound |-> FALSE]

\* asiras.py:157-162
AsirasCreateTable ==
    /\ loader = "asiras" /\ pc = "create_table"
    /\ LET column_config ==
               << <<args.col_id_name, args.col_id_format>> >> \o _build_column_config
       IN /\ session' = Append(session,
                 [op |-> "create_table", table |-> args.output_table,
                  columns |-> column_config])
          /\ asiras' = [asiras EXCEPT !.target_cols =
                 [i \in 1..(Len(column_config) - 1) |-> column_config[i + 1][1]]]
    /\ pc' = "mph"
    /\ UNCHANGED <<proc, loader, args, file, cursor, log, error, als>>

\* asiras.py:168-178  main product header, then the seek over the specific one
AsirasReadMph ==
    /\ loader = "asiras" /\ pc = "mph"
    /\ \E bytes \in {FileRead(file, cursor, mph_bytes)} :
       \E text \in {decode(bytes)} :
          IF text.ok
          THEN /\ asiras' = [asiras EXCEPT !.mph = _parse_product_header(text.text)]
               /\ cursor' = cursor + Len(bytes) + sph_bytes
               /\ pc' = "dsh"
               /\ UNCHANGED error
          ELSE /\ Raise("UnicodeDecodeError", "mph")
               /\ cursor' = cursor + Len(bytes)
               /\ UNCHANGED asiras
    /\ UNCHANGED <<proc, loader, args, file, session, log, als>>

\* asiras.py:181-188  the dataset headers, dsh_count of them
AsirasReadDsh ==
    /\ loader = "asiras" /\ pc = "dsh"
    /\ IF dsh_count_key \notin DOMAIN asiras.mph
       THEN Raise("KeyError", "dsh_count") /\ UNCHANGED <<asiras, cursor>>
       ELSE \E dsh_count \in {int(asiras.mph[dsh_count_key])} :
            \E bytes \in {[i \in 1..dsh_count.value |->
                            FileRead(file, cursor + (i - 1) * dsh_bytes, dsh_bytes)]} :
            \E texts \in {[i \in 1..dsh_count.value |-> decode(bytes[i])]} :
            \E bad \in {{i \in 1..dsh_count.value : ~texts[i].ok}} :
               IF ~dsh_count.ok
               THEN Raise("ValueError", "dsh_count") /\ UNCHANGED <<asiras, cursor>>
               ELSE IF bad # {}
               THEN /\ Raise("UnicodeDecodeError", "dsh")
                    /\ cursor' = cursor + SumSeq([i \in 1..(CHOOSE j \in bad :
                                     \A k \in bad : j <= k) |-> Len(bytes[i])])
                    /\ UNCHANGED asiras
               ELSE /\ asiras' = [asiras EXCEPT
                          !.dsh_count = dsh_count.value,
                          !.dsh = [i \in 1..dsh_count.value |->
                                     _parse_product_header(texts[i].text)]]
                    /\ cursor' = cursor
                          + SumSeq([i \in 1..dsh_count.value |-> Len(bytes[i])])
                    /\ pc' = "select"
                    /\ UNCHANGED error
    /\ UNCHANGED <<proc, loader, args, file, session, log, als>>

\* the selection that keeps the last header tried instead of the first: a
\* variant that takes a later dataset of the same prefix
FirstDatasetHeader_Last(dsh, name_key, name_prefix) ==
    LET nameless == {i \in 1..Len(dsh) : name_key \notin DOMAIN dsh[i]}
        matching == {i \in 1..Len(dsh) :
                       /\ name_key \in DOMAIN dsh[i]
                       /\ startswith(dsh[i][name_key], name_prefix)}
        tried == nameless \cup matching
        first == CHOOSE i \in tried : \A k \in tried : i >= k
    IN IF tried = {} THEN [error |-> "", found |-> None]
       ELSE IF first \in nameless THEN [error |-> "KeyError", found |-> None]
       ELSE [error |-> "",
             found |-> [none |-> FALSE, index |-> first, map |-> dsh[first]]]

\* asiras.py:192-199  next((d for d in dsh if d[name_key].startswith(
\* name_prefix)), None): the headers are tried in order up to the first
\* match; one without the name key raises KeyError when it is tried; with
\* no match the result is the default None (StopIteration is never raised,
\* so the ValueError of asiras.py:200-204 is never raised either).
FirstDatasetHeader(dsh, name_key, name_prefix) ==
    LET nameless == {i \in 1..Len(dsh) : name_key \notin DOMAIN dsh[i]}
        matching == {i \in 1..Len(dsh) :
                       /\ name_key \in DOMAIN dsh[i]
                       /\ startswith(dsh[i][name_key], name_prefix)}
        tried == nameless \cup matching
        first == CHOOSE i \in tried : \A k \in tried : i <= k
    IN IF tried = {} THEN [error |-> "", found |-> None]
       ELSE IF first \in nameless THEN [error |-> "KeyError", found |-> None]
       ELSE [error |-> "",
             found |-> [none |-> FALSE, index |-> first, map |-> dsh[first]]]

AsirasSelect ==
    /\ loader = "asiras" /\ pc = "select"
    /\ LET r == FirstDatasetHeader(asiras.dsh, dsh_name_key, dsh_asiras_prefix)
       IN IF r.error # ""
          THEN Raise(r.error, "select") /\ UNCHANGED asiras
          ELSE /\ asiras' = [asiras EXCEPT !.asiras_dsh = r.found]
               /\ pc' = "params"
               /\ UNCHANGED error
    /\ UNCHANGED <<proc, loader, args, file, cursor, session, log, als>>

\* the lookup with a default, int(d.get(key, 0)): a variant that reads a
\* missing key as 0 where the code raises KeyError
HeaderInt_Default(d, key) ==
    IF d.none THEN [error |-> "TypeError", value |-> 0]
    ELSE IF key \notin DOMAIN d.map THEN [error |-> "", value |-> 0]
    ELSE IF ~int(d.map[key]).ok THEN [error |-> "ValueError", value |-> 0]
    ELSE [error |-> "", value |-> int(d.map[key]).value]

\* int(d[key]) for a dataset header d that may be None
HeaderInt(d, key) ==
    IF d.none THEN [error |-> "TypeError", value |-> 0]
    ELSE IF key \notin DOMAIN d.map THEN [error |-> "KeyError", value |-> 0]
    ELSE IF ~int(d.map[key]).ok THEN [error |-> "ValueError", value |-> 0]
    ELSE [error |-> "", value |-> int(d.map[key]).value]

\* asiras.py:207-227  record count and offset, the seek to the payload, and
\* the counters of the loop
AsirasParams ==
    /\ loader = "asiras" /\ pc = "params"
    /\ LET num_blocks == HeaderInt(asiras.asiras_dsh, dsh_blocks_key)
           start_bytes == HeaderInt(asiras.asiras_dsh, dsh_offset_key)
       IN IF num_blocks.error # ""
          THEN Raise(num_blocks.error, "num_blocks") /\ UNCHANGED <<asiras, cursor>>
          ELSE IF start_bytes.error # ""
          THEN Raise(start_bytes.error, "start_bytes") /\ UNCHANGED <<asiras, cursor>>
          ELSE IF start_bytes.value < 0
          THEN Raise("OSError", "seek") /\ UNCHANGED <<asiras, cursor>>
          ELSE /\ asiras' = [asiras EXCEPT
                     !.num_blocks = num_blocks.value,
                     !.start_bytes = start_bytes.value,
                     !.buffer = <<>>, !.buffer_id = @ + 1,
                     !.block_num = 0,
                     !.blocks_buffered = 0, !.blocks_written = 0,
                     !.rows_buffered = 0, !.rows_written = 0]
               /\ cursor' = start_bytes.value
               /\ pc' = "loop"
               /\ UNCHANGED error
    /\ UNCHANGED <<proc, loader, args, file, session, log, als>>

\* asiras.py:229-234  the next block: its time and orbit group
AsirasReadTog ==
    /\ loader = "asiras" /\ pc = "loop" /\ asiras.block_num < asiras.num_blocks
    /\ \E tog_rules \in {_get_group_read_rules(args.byte_order)[1]} :
       \E tog \in {_read_block_group(file, cursor, tog_rules)} :
          /\ cursor' = tog.cursor
          /\ IF tog.ok
             THEN /\ asiras' = [asiras EXCEPT !.block_num = @ + 1,
                                              !.tog = tog.buffer]
                  /\ pc' = "mg"
                  /\ UNCHANGED error
             ELSE /\ RaiseAt("struct.error", "tog",
                          <<asiras.block_num + 1, 1, tog.row, tog.field>>)
                  /\ asiras' = [asiras EXCEPT !.block_num = @ + 1]
    /\ UNCHANGED <<proc, loader, args, file, session, log, als>>

\* asiras.py:235  its measurements group
AsirasReadMg ==
    /\ loader = "asiras" /\ pc = "mg"
    /\ \E mg_rules \in {_get_group_read_rules(args.byte_order)[2]} :
       \E mg \in {_read_block_group(file, cursor, mg_rules)} :
          /\ cursor' = mg.cursor
          /\ IF mg.ok
             THEN /\ asiras' = [asiras EXCEPT !.mg = mg.buffer]
                  /\ pc' = "mwg"
                  /\ UNCHANGED error
             ELSE /\ RaiseAt("struct.error", "mg",
                          <<asiras.block_num, 2, mg.row, mg.field>>)
                  /\ UNCHANGED asiras
    /\ UNCHANGED <<proc, loader, args, file, session, log, als>>

\* the rows of a block cut down to the first: a variant that adds one row
\* for a block
Interleave_FirstRow(tog, mg, mwg) ==
    [i \in 1..Min(1, Min(Len(tog), Min(Len(mg), Len(mwg)))) |->
        tog[i] \o mg[i] \o mwg[i]]

\* asiras.py:244-246  [tuple(chain(*rows)) for rows in zip(tog, mg, mwg)]
Interleave(tog, mg, mwg) ==
    [i \in 1..Min(Len(tog), Min(Len(mg), Len(mwg))) |-> tog[i] \o mg[i] \o mwg[i]]

\* asiras.py:238-250  the seek over the corrections and average waveform
\* groups, the multilooked waveform group, and the rows of the block,
\* each the values of its three groups in turn, added to the buffer
AsirasReadMwg ==
    /\ loader = "asiras" /\ pc = "mwg"
    /\ \E empty_group_bytes \in {cg_bytes + awg_bytes} :
       \E mwg_rules \in {_get_group_read_rules(args.byte_order)[3]} :
       \E mwg \in {_read_block_group(file, cursor + empty_group_bytes, mwg_rules)} :
          /\ cursor' = mwg.cursor
          /\ IF mwg.ok
             THEN /\ asiras' = [asiras EXCEPT
                        !.buffer = @ \o Interleave(asiras.tog, asiras.mg, mwg.buffer),
                        !.tog = <<>>, !.mg = <<>>,
                        !.blocks_buffered = @ + 1,
                        !.rows_buffered = @ + rows_per_block,
                        !.expected_rows = asiras.num_blocks * rows_per_block,
                        !.expected_rows_bound = TRUE]
                  /\ pc' = "check"
                  /\ UNCHANGED error
             ELSE /\ RaiseAt("struct.error", "mwg",
                          <<asiras.block_num, 3, mwg.row, mwg.field>>)
                  /\ UNCHANGED asiras
    /\ UNCHANGED <<proc, loader, args, file, session, log, als>>

\* the flush test with a strict comparison: a variant that lets one block
\* more than blocks_to_buffer gather before a flush
AsirasFlushCondition_Strict ==
    \/ asiras.blocks_buffered > args.blocks_to_buffer
    \/ asiras.block_num >= asiras.num_blocks

\* asiras.py:254-255
AsirasFlushCondition ==
    \/ asiras.blocks_buffered >= args.blocks_to_buffer
    \/ asiras.block_num >= asiras.num_blocks

\* the flush with the table declared anew before each insert: a variant
\* that repeats the declaration between batches
AsirasFlush_Redeclare ==
    /\ loader = "asiras" /\ pc = "check" /\ AsirasFlushCondition
    /\ session' = session \o
         << [op |-> "create_table", table |-> args.output_table,
             columns |-> << <<args.col_id_name, args.col_id_format>> >>
                            \o _build_column_config],
            [op |-> "insert", table |-> args.output_table,
             rows |-> asiras.buffer, target_cols |-> asiras.target_cols,
             blocks |-> asiras.blocks_buffered, list |-> asiras.buffer_id] >>
    /\ asiras' = [asiras EXCEPT
           !.buffer = <<>>, !.buffer_id = @ + 1,
           !.blocks_written = @ + asiras.blocks_buffered,
           !.blocks_buffered = 0,
           !.rows_written = @ + asiras.rows_buffered,
           !.rows_buffered = 0]
    /\ log' = Append(log, [event |-> "written",
                           written |-> asiras.blocks_written + asiras.blocks_buffered,
                           total |-> asiras.num_blocks])
    /\ pc' = "loop"
    /\ UNCHANGED <<proc, loader, args, file, cursor, error, als>>

\* the flush that empties the list in place, buffer.clear() for buffer = []:
\* a variant in which the list the sink was handed is the list the next
\* blocks are added to
AsirasFlush_ClearInPlace ==
    /\ loader = "asiras" /\ pc = "check" /\ AsirasFlushCondition
    /\ session' = Append(session,
           [op |-> "insert", table |-> args.output_table,
            rows |-> asiras.buffer, target_cols |-> asiras.target_cols,
            blocks |-> asiras.blocks_buffered, list |-> asiras.buffer_id])
    /\ asiras' = [asiras EXCEPT
           !.buffer = <<>>,
           !.blocks_written = @ + asiras.blocks_buffered,
           !.blocks_buffered = 0,
           !.rows_written = @ + asiras.rows_buffered,
           !.rows_buffered = 0]
    /\ log' = Append(log, [event |-> "written",
                           written |-> asiras.blocks_written + asiras.blocks_buffered,
                           total |-> asiras.num_blocks])
    /\ pc' = "loop"
    /\ UNCHANGED <<proc, loader, args, file, cursor, error, als>>

\* asiras.py:256-266.  The field blocks of the call record is bookkeeping of
\* the model (the blocks the call covers), not an argument of the call; the
\* field list is the identity of the list object handed over, buffer_id
\* counting the lists that buffer = [] has made.
AsirasFlush ==
    /\ loader = "asiras" /\ pc = "check" /\ AsirasFlushCondition
    /\ session' = Append(session,
           [op |-> "insert", table |-> args.output_table,
            rows |-> asiras.buffer, target_cols |-> asiras.target_cols,
            blocks |-> asiras.blocks_buffered, list |-> asiras.buffer_id])
    /\ asiras' = [asiras EXCEPT
           !.buffer = <<>>, !.buffer_id = @ + 1,
           !.blocks_written = @ + asiras.blocks_buffered,
           !.blocks_buffered = 0,
           !.rows_written = @ + asiras.rows_buffered,
           !.rows_buffered = 0]
    /\ log' = Append(log, [event |-> "written",
                           written |-> asiras.blocks_written + asiras.blocks_buffered,
                           total |-> asiras.num_blocks])
    /\ pc' = "loop"
    /\ UNCHANGED <<proc, loader, args, file, cursor, error, als>>

AsirasNoFlush ==
    /\ loader = "asiras" /\ pc = "check" /\ ~AsirasFlushCondition
    /\ pc' = "loop"
    /\ UNCHANGED <<proc, loader, args, file, cursor, session, log, error, als, asiras>>

\* asiras.py:268-272  the summary; expected_rows is assigned in the loop
\* body only (asiras.py:250), so with no block it is unbound here
AsirasFinish ==
    /\ loader = "asiras" /\ pc = "loop" /\ asiras.block_num >= asiras.num_blocks
    /\ IF asiras.expected_rows_bound
       THEN /\ log' = Append(log, [event |-> "finished",
                                   blocks_written |-> asiras.blocks_written,
                                   num_blocks |-> asiras.num_blocks,
                                   rows_written |-> asiras.rows_written,
                                   expected_rows |-> asiras.expected_rows])
            /\ pc' = "done"
            /\ UNCHANGED error
       ELSE /\ Raise("UnboundLocalError", "finish")
            /\ UNCHANGED log
    /\ UNCHANGED <<proc, loader, args, file, cursor, session, als, asiras>>

(***************************************************************************)
(*                        ASIRAS: the input files                          *)
(***************************************************************************)
RECURSIVE Join(_)
Join(texts) == IF texts = <<>> THEN "" ELSE Head(texts) \o Join(Tail(texts))

\* one dataset header: its lines
DshText(lines) == Join(lines)
NameLine(name) == "DS_NAME=\"" \o name \o "\"\n"
TypeLine == "DS_TYPE=M\n"
OffsetLine(offset) == "DS_OFFSET=+" \o ToString(offset) \o "<bytes>\n"
BlocksLine(n) == "NUM_DSR=+" \o ToString(n) \o "\n"

\* a table of three dataset headers for a payload of n blocks that starts
\* at byte offset; the other datasets have other counts and offsets
Other(offset, n, name) ==
    DshText(<<NameLine(name), TypeLine, OffsetLine(offset + 1 + BlockBytes),
              BlocksLine(n + 1)>>)
Asi(offset, n, name) ==
    DshText(<<NameLine(name), TypeLine, OffsetLine(offset), BlocksLine(n)>>)

DshTables(offset, n) ==
    { \* the dataset is the second of the table, and a later one matches too
      <<Other(offset, n, "XYZ_INFO"), Asi(offset, n, "ASI_L1B      "),
        Other(offset, n + 1, "ASI_L2")>>,
      \* it is the first; the next has no name
      <<Asi(offset, n, "ASIRAS"), DshText(<<TypeLine, BlocksLine(n + 1)>>),
        Other(offset, n, "XYZ_INFO")>>,
      \* no name has the prefix
      <<Other(offset, n, "XYZ_INFO"), Other(offset, n, "L1B_ASI"),
        Other(offset, n, "asi_l1b")>>,
      \* a header before it has no name
      <<DshText(<<TypeLine, BlocksLine(n + 1)>>), Asi(offset, n, "ASI_L1B"),
        Other(offset, n, "XYZ_INFO")>>,
      \* its keys are in lower case
      <<Other(offset, n, "XYZ_INFO"),
        DshText(<<"ds_name=\"ASI_L1B\"\n", "ds_offset=+" \o ToString(offset) \o "\n",
                  "num_dsr=+" \o ToString(n) \o "\n">>),
        Other(offset, n, "ABC")>>,
      \* it has no record count
      <<Other(offset, n, "XYZ_INFO"),
        DshText(<<NameLine("ASI_L1B"), OffsetLine(offset)>>),
        Other(offset, n, "ABC")>>,
      \* its record count is no number
      <<Other(offset, n, "XYZ_INFO"),
        DshText(<<NameLine("ASI_L1B"), OffsetLine(offset), "NUM_DSR=many\n">>),
        Other(offset, n, "ABC")>>,
      \* it has no offset
      <<DshText(<<NameLine("ASI_L1B"), BlocksLine(n)>>),
        Other(offset, n, "XYZ_INFO"), Other(offset, n, "ABC")>>,
      \* its offset is no number
      <<DshText(<<NameLine("ASI_L1B"), "DS_OFFSET=0x0C7F<bytes>\n", BlocksLine(n)>>),
        Other(offset, n, "XYZ_INFO"), Other(offset, n, "ABC")>>,
      \* a form feed ends its record count
      <<Other(offset, n, "XYZ_INFO"),
        DshText(<<NameLine("ASI_L1B"), OffsetLine(offset),
                  "NUM_DSR=+" \o ToString(n) \o "\f\n">>),
        Other(offset, n, "ABC")>>,
      \* a header holds a byte outside ASCII
      <<Other(offset, n, "XYZ_INFO"), Asi(offset, n, "ASI_L1B"),
        Other(offset, n, "ABCÿ")>> }

ProductLine == "PRODUCT=\"AS3OA03_ASIWL1B_040326\"\n"

\* main product headers for a table of count dataset headers: the count
\* of the headers to read is 0..count + 1, one more than the file has
MphTexts(count) ==
    { ProductLine \o "NUM_DSD=+" \o ToString(k) \o "\n" : k \in 0..(count + 1) }
    \cup { ProductLine \o "NUM_DSD=\"" \o ToString(count) \o "\"\nTOT_SIZE=+16660<bytes>\n",
           ProductLine \o "num_dsd=\"" \o ToString(count) \o "\"\n",
           ProductLine,
           ProductLine \o "NUM_DSD=three\n",
           "PRODUCT=\"ÿ\"\nNUM_DSD=+" \o ToString(count) \o "\n" }

\* the number of bytes missing at the end of a payload that ends k bytes
\* into field i of row r of group g of its last block
CutInField(g, r, i, k) ==
    BlockBytes - (GroupOffset(g) + (r - 1) * GroupStride(g) + FieldOffset(g, i) + k)

\* payloads that end inside a filler of the first and of the second group,
\* at the start of a filler, inside and at the start of the span of the two
\* groups that are skipped, and inside the waveform of a row
AsirasCuts ==
    { CutInField(1, 1, 4, 3), CutInField(2, rows_per_block, 21, 1),
      CutInField(2, 1, 2, 0), CutInField(3, 1, 1, 0) + 100,
      CutInField(3, 1, 1, 0) + cg_bytes + awg_bytes, CutInField(3, 5, 1, 100) }

AsirasFile(mph, dsh, n, cut) ==
    [mph |-> Codes(mph), dsh |-> [i \in 1..Len(dsh) |-> Codes(dsh[i])], seed |-> 3,
     size |-> mph_bytes + sph_bytes + Len(dsh) * dsh_bytes + n * BlockBytes - cut]

\* The files have three dataset headers and a payload of n blocks with the
\* last cut bytes missing.  Two tables come with every payload; every main
\* product header and every table come with a payload of one block, and
\* so do a payload of other bytes, a dataset whose offset is the start of
\* the file, of the dataset headers or of the last of them, and a main
\* product header with the control character of the code 28 after the count.
AsirasFiles ==
    LET offset == mph_bytes + sph_bytes + 3 * dsh_bytes
        mph == ProductLine \o "NUM_DSD=+3\n"
        first(n) == <<Asi(offset, n, "ASIRAS"), Other(offset, n, "XYZ_INFO"),
                      Other(offset, n, "ABC")>>
        second(n) == <<Other(offset, n, "XYZ_INFO"), Asi(offset, n, "ASI_L1B      "),
                       Other(offset, n + 1, "ASI_L2")>>
    IN UNION { {AsirasFile(mph, first(n), n, cut), AsirasFile(mph, second(n), n, cut)} :
                 n \in 0..MaxBlocks, cut \in 0..MaxCut }
       \cup { AsirasFile(m, second(1), 1, 0) : m \in MphTexts(3) }
       \cup { AsirasFile(mph, t, 1, 0) : t \in DshTables(offset, 1) }
       \cup { [AsirasFile(mph, first(1), 1, 0) EXCEPT !.seed = 250] }
       \cup { [AsirasFile(mph, first(1), 1, 0) EXCEPT
                 !.dsh[1] = Codes(Asi(at, 1, "ASIRAS"))] :
                 at \in {0, mph_bytes + sph_bytes, offset - dsh_bytes} }
       \cup { [AsirasFile(mph, first(1), 1, 0) EXCEPT
                 !.mph = Codes(ProductLine \o "NUM_DSD=+3") \o <<28, 10>>] }
       \cup { AsirasFile(mph, first(2), 2, cut) : cut \in AsirasCuts }

\* the arguments of a call of AlsLoader.extract_to_database
AlsArgs ==
    {[lines_to_buffer |-> b, output_table |-> "als",
      col_oid |-> "id", col_elvtn |-> "elvtn", col_geom |-> "geom",
      srid_output |-> 3413, srid_input |-> 4326] : b \in 1..MaxLinesToBuffer}

\* the arguments of a call of AsirasLoader.extract_to_database
AsirasArgs ==
    {[blocks_to_buffer |-> b, output_table |-> "asiras",
      col_id_name |-> "id", col_id_format |-> "bigserial PRIMARY KEY",
      byte_order |-> ">"] : b \in 1..MaxBlocksToBuffer}

InitAls ==
    /\ loader = "als"
    /\ file \in AlsFiles
    /\ args \in AlsArgs
    /\ cursor = 0
    /\ pc = "create_table"
    /\ session = <<>>
    /\ log = <<>>
    /\ error = NoError
    /\ als = AlsLocals0
    /\ asiras = AsirasLocals0
    /\ proc = NoLocals

InitAsiras ==
    /\ loader = "asiras"
    /\ file \in AsirasFiles
    /\ args \in AsirasArgs
    /\ cursor = 0
    /\ pc = "create_table"
    /\ session = <<>>
    /\ log = <<>>
    /\ error = NoError
    /\ als = AlsLocals0
    /\ asiras = AsirasLocals0
    /\ proc = NoLocals

Init == InitAls \/ InitAsiras

\* the steps of the ALS extractor
NextAls ==
    \/ AlsCreateTable
    \/ AlsReadHeader
    \/ AlsReadLine
    \/ AlsReadLineError
    \/ AlsFlush
    \/ AlsNoFlush
    \/ AlsFinish

\* the steps of the ASIRAS extractor
NextAsiras ==
    \/ AsirasCreateTable
    \/ AsirasReadMph
    \/ AsirasReadDsh
    \/ AsirasSelect
    \/ AsirasParams
    \/ AsirasReadTog
    \/ AsirasReadMg
    \/ AsirasReadMwg
    \/ AsirasFlush
    \/ AsirasNoFlush
    \/ AsirasFinish

Next == NextAls \/ NextAsiras

\* one run of either extractor, of the ALS one, of the ASIRAS one
Spec == Init /\ [][Next]_vars
SpecAls == InitAls /\ [][NextAls]_vars
SpecAsiras == InitAsiras /\ [][NextAsiras]_vars

(***************************************************************************)
(*        process/process.py: Process.load_asiras, Process.load_als        *)
(* The load step around an extraction: the test for the output table, the  *)
(* extraction, and what follows it.  table_exists and geom_col_exists are  *)
(* what the database answers at the start of the step.                     *)
(***************************************************************************)
InitLoad ==
    /\ \/ /\ loader = "als"
          /\ file \in AlsFiles
          /\ args \in { a @@ [table_exists |-> e, geom_col_exists |-> e] :
                           a \in AlsArgs, e \in BOOLEAN }
       \/ /\ loader = "asiras"
          /\ file \in AsirasFiles
          /\ args \in { a @@ [table_exists |-> e, geom_col_exists |-> g] :
                           a \in AsirasArgs, e \in BOOLEAN, g \in BOOLEAN }
    /\ cursor = 0
    /\ pc = "load"
    /\ session = <<>>
    /\ log = <<>>
    /\ error = NoError
    /\ als = AlsLocals0
    /\ asiras = AsirasLocals0
    /\ proc = NoLocals

\* process.py:222-230, 254-259  the table is not there: the extraction is
\* called
LoadExtract ==
    /\ loader \in {"als", "asiras"} /\ pc = "load"
    /\ ~args.table_exists
    /\ session' = Append(session, [op |-> "table_exists", table |-> args.output_table])
    /\ log' = Append(log, [event |-> "extracting", table |-> args.output_table])
    /\ pc' = "create_table"
    /\ UNCHANGED <<proc, loader, args, file, cursor, error, als, asiras>>

\* process.py:235-236, 270-271  the table is there: the extraction is skipped
LoadSkip ==
    /\ loader \in {"als", "asiras"} /\ pc = "load"
    /\ args.table_exists
    /\ session' = Append(session, [op |-> "table_exists", table |-> args.output_table])
    /\ log' = Append(log, [event |-> "table_exists", table |-> args.output_table])
    /\ pc' = IF loader = "asiras" THEN "geom_col" ELSE "loaded"
    /\ UNCHANGED <<proc, loader, args, file, cursor, error, als, asiras>>

\* an exception of the database in session.insert (als.py:137,
\* asiras.py:256) leaves the extraction
LoadInsertRaise ==
    /\ \/ loader = "als" /\ pc = "check" /\ AlsFlushCondition
       \/ loader = "asiras" /\ pc = "check" /\ AsirasFlushCondition
    /\ Raise("psycopg2.Error", "insert")
    /\ UNCHANGED <<proc, loader, args, file, cursor, session, log, als, asiras>>

\* the commit made however the extraction ends, as in a finally clause: a
\* variant that commits what an aborted extraction has left
LoadAsirasCommit_Finally ==
    /\ loader = "asiras" /\ pc \in {"done", "error"}
    /\ CallsOf("commit") = {}
    /\ session' = Append(session, [op |-> "commit"])
    /\ pc' = IF pc = "done" THEN "geom_col" ELSE "loaded"
    /\ UNCHANGED <<proc, loader, args, file, cursor, log, error, als, asiras>>

\* process.py:230-234  load_asiras after the extraction has returned
LoadAsirasCommit ==
    /\ loader = "asiras" /\ pc = "done"
    /\ session' = Append(session, [op |-> "commit"])
    /\ pc' = "geom_col"
    /\ UNCHANGED <<proc, loader, args, file, cursor, log, error, als, asiras>>

\* process.py:238-242, 87-116  create_geom_col_from_xy: the geometry column
\* is made, indexed and committed unless the table has it; a table that the
\* extraction has just declared has the columns of fields_format only
LoadGeomCol ==
    /\ loader = "asiras" /\ pc = "geom_col"
    /\ IF args.table_exists /\ args.geom_col_exists
       THEN /\ log' = Append(log, [event |-> "table_has_columns",
                                   table |-> args.output_table])
            /\ session' = Append(session,
                   [op |-> "table_has_none_of_cols", table |-> args.output_table])
       ELSE /\ session' = session \o
                 << [op |-> "table_has_none_of_cols", table |-> args.output_table],
                    [op |-> "add_geom_col_from_xy", table |-> args.output_table],
                    [op |-> "create_spatial_index", table |-> args.output_table],
                    [op |-> "commit"] >>
            /\ UNCHANGED log
    /\ pc' = "loaded"
    /\ UNCHANGED <<proc, loader, args, file, cursor, error, als, asiras>>

\* process.py:259-269  load_als after the extraction has returned
LoadAlsCommit ==
    /\ loader = "als" /\ pc = "done"
    /\ session' = session \o
         << [op |-> "create_spatial_index", table |-> args.output_table],
            [op |-> "commit"] >>
    /\ pc' = "loaded"
    /\ UNCHANGED <<proc, loader, args, file, cursor, log, error, als, asiras>>

NextLoad ==
    \/ LoadExtract
    \/ LoadSkip
    \/ NextAls
    \/ NextAsiras
    \/ LoadInsertRaise
    \/ LoadAsirasCommit
    \/ LoadGeomCol
    \/ LoadAlsCommit

\* one run of load_als or of load_asiras
SpecLoad == InitLoad /\ [][NextLoad]_vars

(***************************************************************************)
(*        process: the float64 of numpy and of Python                      *)
(* An operator of this section names a value before it is used more than   *)
(* once: Only({ e : x \in {v} }) is e with x = v.                          *)
(***************************************************************************)
MaxBins == 4           \* a row of a waveform has 1..MaxBins range bins
MaxValue == 2          \* the value of a bin ranges over 0..MaxValue
ThresholdDen == 10     \* a threshold is k / ThresholdDen, 1 <= k <= ThresholdDen

\* the element of a set of one element
Only(S) == CHOOSE x \in S : TRUE

Abs(x) == IF x < 0 THEN -x ELSE x

\* A natural number of any size is the sequence of its digits to the base
\* 2^15, the lowest first and the highest not zero; << >> is zero.
Limb == 2 ^ 15

RECURSIVE Natural(_)
Natural(n) == IF n = 0 THEN <<>> ELSE <<n % Limb>> \o Natural(n \div Limb)

Digit(a, i) == IF i <= Len(a) THEN a[i] ELSE 0

Trim(a) ==
    Only({ IF nz = {} THEN <<>>
           ELSE SubSeq(a, 1, CHOOSE i \in nz : \A j \in nz : j <= i)
         : nz \in {{i \in 1..Len(a) : a[i] # 0}} })

\* -1, 0 or 1 as a < b, a = b or a > b
Cmp(a, b) ==
    IF Len(a) # Len(b) THEN (IF Len(a) < Len(b) THEN -1 ELSE 1)
    ELSE Only({ IF d = {} THEN 0
                ELSE Only({ IF a[i] < b[i] THEN -1 ELSE 1
                          : i \in {CHOOSE i \in d : \A j \in d : j <= i} })
              : d \in {{i \in 1..Len(a) : a[i] # b[i]}} })

RECURSIVE AddFrom(_, _, _, _)
AddFrom(a, b, i, carry) ==
    IF i > Len(a) /\ i > Len(b) THEN (IF carry = 0 THEN <<>> ELSE <<carry>>)
    ELSE Only({ <<t % Limb>> \o AddFrom(a, b, i + 1, t \div Limb)
              : t \in {Digit(a, i) + Digit(b, i) + carry} })

Add(a, b) == AddFrom(a, b, 1, 0)

RECURSIVE SubFrom(_, _, _, _)
SubFrom(a, b, i, borrow) ==
    IF i > Len(a) THEN <<>>
    ELSE Only({ <<t % Limb>> \o SubFrom(a, b, i + 1, IF t < 0 THEN 1 ELSE 0)
              : t \in {a[i] - Digit(b, i) - borrow} })

\* a - b for a >= b
Sub(a, b) == Trim(SubFrom(a, b, 1, 0))

RECURSIVE TimesFrom(_, _, _, _)
TimesFrom(a, k, i, carry) ==
    IF i > Len(a) THEN (IF carry = 0 THEN <<>> ELSE <<carry>>)
    ELSE Only({ <<t % Limb>> \o TimesFrom(a, k, i + 1, t \div Limb)
              : t \in {a[i] * k + carry} })

\* a * k for a digit k
Times(a, k) == IF k = 0 THEN <<>> ELSE TimesFrom(a, k, 1, 0)

RECURSIVE Mul(_, _)
Mul(a, b) ==
    IF a = <<>> \/ b = <<>> THEN <<>>
    ELSE Only({ Add(Times(a, b[1]),
                    IF rest = <<>> THEN <<>> ELSE <<0>> \o rest)
              : rest \in {Mul(a, Tail(b))} })

\* a * 2^k and the whole part of a / 2^k
ShiftLeft(a, k) ==
    IF a = <<>> THEN <<>>
    ELSE [i \in 1..(k \div 15) |-> 0] \o Times(a, 2 ^ (k % 15))

ShiftRight(a, k) ==
    Only({ Trim([i \in 1..(Len(a) - p[1]) |->
                   (a[i + p[1]] \div p[2])
                      + (Digit(a, i + p[1] + 1) % p[2]) * (Limb \div p[2])])
         : p \in {<<k \div 15, 2 ^ (k % 15)>>} })

\* bit j of a, from 0, and whether the k lowest bits of a are zero
Bit(a, j) == (Digit(a, j \div 15 + 1) \div 2 ^ (j % 15)) % 2

LowZero(a, k) ==
    /\ \A i \in 1..(k \div 15) : Digit(a, i) = 0
    /\ Digit(a, k \div 15 + 1) % 2 ^ (k % 15) = 0

\* the number of bits of a, and of zero bits at the low end of a # 0
BitLen(a) ==
    IF a = <<>> THEN 0
    ELSE 15 * (Len(a) - 1)
            + (CHOOSE n \in 1..15 : 2 ^ (n - 1) <= a[Len(a)] /\ a[Len(a)] < 2 ^ n)

LowZeros(a) ==
    Only({ 15 * (i - 1)
             + (CHOOSE n \in 0..14 : a[i] % 2 ^ n = 0 /\ a[i] % 2 ^ (n + 1) # 0)
         : i \in {CHOOSE i \in 1..Len(a) : a[i] # 0 /\ \A j \in 1..(i - 1) : a[j] = 0} })

\* the digit x with d * x <= r < d * (x + 1), for r < d * 2^15 and a d
\* whose highest digit is 2^14 or more: the quotient of the two highest
\* digits of r by the highest of d is x, x + 1 or x + 2
DivDigit(r, d) ==
    Only({ CHOOSE x \in {y \in (g - 2)..g : y >= 0} :
              /\ Cmp(Times(d, x), r) <= 0
              /\ Cmp(Add(Times(d, x), d), r) > 0
         : g \in {Min(Limb - 1, (Digit(r, Len(d) + 1) * Limb + Digit(r, Len(d))) \div d[Len(d)])} })

\* the long division of the digits j, ..., 1 of n by d, with the rest r of
\* the digits above them: the j digits of the quotient and the rest
RECURSIVE DivFrom(_, _, _, _)
DivFrom(n, d, j, r) ==
    IF j = 0 THEN [q |-> <<>>, r |-> r]
    ELSE Only({ Only({ Only({ [q |-> Append(rest.q, x), r |-> rest.r]
                            : rest \in {DivFrom(n, d, j - 1, Sub(r2, Times(d, x)))} })
                     : x \in {DivDigit(r2, d)} })
              : r2 \in {Trim(<<n[j]>> \o r)} })

\* the whole part q of n / d for d # 0, and whether the division leaves no
\* rest; n and d are first multiplied by the power of two that makes the
\* highest digit of d 2^14 or more
Div(n, d) ==
    Only({ Only({ [q |-> Trim(t.q), exact |-> t.r = <<>>]
                : t \in {DivFrom(p[1], p[2], Len(p[1]), <<>>)} })
         : p \in {<<ShiftLeft(n, 15 * Len(d) - BitLen(d)),
                    ShiftLeft(d, 15 * Len(d) - BitLen(d))>>} })

\* A float64 is [c, s, m, e]: c is "fin" for the number (-1)^s * m * 2^e
\* with m odd and under 2^53 (m = 0 and e = 0 for the two zeros), "inf"
\* for the infinity of the sign s, "nan" for a value that is no number.
Zero(s) == [c |-> "fin", s |-> s, m |-> <<>>, e |-> 0]
Inf(s) == [c |-> "inf", s |-> s, m |-> <<>>, e |-> 0]
nan == [c |-> "nan", s |-> 0, m |-> <<>>, e |-> 0]
inf == Inf(0)

\* the float64 of the number (-1)^s * m * 2^e, m # 0, when it is one
Exact(s, m, e) ==
    IF e + BitLen(m) > 1024 THEN Inf(s)
    ELSE Only({ [c |-> "fin", s |-> s, m |-> ShiftRight(m, z), e |-> e + z]
              : z \in {LowZeros(m)} })

\* the float64 nearest to (-1)^s * m * 2^e, the one with the even last bit
\* at equal distance: 53 bits are kept, fewer under 2^-1022, and a result
\* of 2^1024 or more is an infinity
Nearest(s, m, e) ==
    IF m = <<>> THEN Zero(s)
    ELSE Only({ IF e1 <= e THEN Exact(s, m, e)
                ELSE Only({ IF /\ Bit(m, e1 - e - 1) = 1
                               /\ (Bit(q, 0) = 1 \/ ~LowZero(m, e1 - e - 1))
                            THEN Exact(s, Add(q, <<1>>), e1)
                            ELSE IF q = <<>> THEN Zero(s)
                            ELSE Exact(s, q, e1)
                          : q \in {ShiftRight(m, e1 - e)} })
              : e1 \in {Max(e + BitLen(m) - 53, -1074)} })

Round(s, m, e) == Only({ Nearest(s, p[1], p[2]) : p \in {<<m, e>>} })

\* float(x) of an integer x
F(x) == Only({ Round(IF v < 0 THEN 1 ELSE 0, Natural(Abs(v)), 0) : v \in {x} })

\* -a
FNeg(a) == Only({ IF x.c = "nan" THEN x ELSE [x EXCEPT !.s = 1 - x.s] : x \in {a} })

\* -1, 0 or 1 as |a| < |b|, |a| = |b| or |a| > |b|, for finite a and b
CmpAbs(a, b) ==
    IF a.m = <<>> \/ b.m = <<>>
    THEN (IF a.m = b.m THEN 0 ELSE IF a.m = <<>> THEN -1 ELSE 1)
    ELSE Only({ IF t[1] # t[2] THEN (IF t[1] < t[2] THEN -1 ELSE 1)
                ELSE Cmp(ShiftLeft(a.m, a.e - t[3]),
                         ShiftLeft(b.m, b.e - t[3]))
              : t \in {<<a.e + BitLen(a.m), b.e + BitLen(b.m), Min(a.e, b.e)>>} })

\* -1, 0 or 1 as a < b, a = b or a > b, for a and b other than nan; the
\* two zeros are equal
FCmp(a, b) ==
    IF a.c = "inf" \/ b.c = "inf"
    THEN (IF a.c = b.c /\ a.s = b.s THEN 0
          ELSE IF a.c = "inf" THEN 1 - 2 * a.s ELSE 2 * b.s - 1)
    ELSE IF a.m = <<>> /\ b.m = <<>> THEN 0
    ELSE IF a.m = <<>> THEN 2 * b.s - 1
    ELSE IF b.m = <<>> THEN 1 - 2 * a.s
    ELSE IF a.s # b.s THEN 1 - 2 * a.s
    ELSE (1 - 2 * a.s) * CmpAbs(a, b)

\* a <= b, a < b and a == b: a comparison with nan is false
FLe(a, b) ==
    \E p \in {<<a, b>>} : /\ p[1].c # "nan" /\ p[2].c # "nan"
                          /\ FCmp(p[1], p[2]) <= 0
FLt(a, b) ==
    \E p \in {<<a, b>>} : /\ p[1].c # "nan" /\ p[2].c # "nan"
                          /\ FCmp(p[1], p[2]) < 0
\* an equality test that never holds: a variant for which no value found
\* is the target
FEq_Never(a, b) == FALSE

FEq(a, b) ==
    \E p \in {<<a, b>>} : /\ p[1].c # "nan" /\ p[2].c # "nan"
                          /\ FCmp(p[1], p[2]) = 0

\* the product of a and b, rounded
Product(a, b) ==
    IF a.c = "nan" \/ b.c = "nan" THEN nan
    ELSE IF a.c = "inf" \/ b.c = "inf"
    THEN (IF (a.c = "fin" /\ a.m = <<>>) \/ (b.c = "fin" /\ b.m = <<>>) THEN nan
          ELSE Inf((a.s + b.s) % 2))
    ELSE Round((a.s + b.s) % 2, Mul(a.m, b.m), a.e + b.e)

\* a * b
FMul(a, b) == Only({ Product(p[1], p[2]) : p \in {<<a, b>>} })

\* the sum of a and b, rounded
Total(a, b) ==
    IF a.c = "nan" \/ b.c = "nan" THEN nan
    ELSE IF a.c = "inf" \/ b.c = "inf"
    THEN (IF a.c = b.c /\ a.s # b.s THEN nan ELSE IF a.c = "inf" THEN a ELSE b)
    ELSE IF a.m = <<>> /\ b.m = <<>> THEN Zero(IF a.s = 1 /\ b.s = 1 THEN 1 ELSE 0)
    ELSE IF a.m = <<>> THEN b
    ELSE IF b.m = <<>> THEN a
    ELSE Only({ Only({ IF a.s = b.s THEN Round(a.s, Add(p[1], p[2]), t[1])
                       ELSE IF t[2] = 0 THEN Zero(0)
                       ELSE IF t[2] > 0 THEN Round(a.s, Sub(p[1], p[2]), t[1])
                       ELSE Round(b.s, Sub(p[2], p[1]), t[1])
                     : p \in {<<ShiftLeft(a.m, a.e - t[1]),
                                ShiftLeft(b.m, b.e - t[1])>>} })
              : t \in {<<Min(a.e, b.e), CmpAbs(a, b)>>} })

\* a is a number above 2^60 times the number b: the sum of the two rounds
\* to a
Outweighs(a, b) ==
    /\ a.c = "fin" /\ b.c = "fin" /\ a.m # <<>> /\ b.m # <<>>
    /\ (a.e + BitLen(a.m)) - (b.e + BitLen(b.m)) > 60

Sum(a, b) ==
    IF Outweighs(a, b) THEN a ELSE IF Outweighs(b, a) THEN b ELSE Total(a, b)

\* a + b and a - b
FAdd(a, b) == Only({ Sum(p[1], p[2]) : p \in {<<a, b>>} })
FSub(a, b) == Only({ Sum(p[1], FNeg(p[2])) : p \in {<<a, b>>} })

\* the quotient of a by b, rounded; a division by zero gives inf, -inf or
\* nan as numpy does (with a RuntimeWarning, not an exception).  The
\* quotient of the two m is taken to 55 bits or more, and one more bit
\* tells whether a rest is left.
Quotient(a, b) ==
    IF a.c = "nan" \/ b.c = "nan" THEN nan
    ELSE IF a.c = "inf"
    THEN (IF b.c = "inf" THEN nan ELSE Inf((a.s + b.s) % 2))
    ELSE IF b.c = "inf" THEN Zero((a.s + b.s) % 2)
    ELSE IF b.m = <<>>
    THEN (IF a.m = <<>> THEN nan ELSE Inf((a.s + b.s) % 2))
    ELSE IF a.m = <<>> THEN Zero((a.s + b.s) % 2)
    ELSE Only({ Only({ Round((a.s + b.s) % 2,
                             Add(ShiftLeft(d.q, 1),
                                 IF d.exact THEN <<>> ELSE <<1>>),
                             a.e - b.e - k - 1)
                     : d \in {Div(ShiftLeft(a.m, k), b.m)} })
              : k \in {56 + BitLen(b.m) - BitLen(a.m)} })

\* the quotient taken the wrong way round, b / a
FDiv_Inverted(a, b) == Only({ Quotient(p[2], p[1]) : p \in {<<a, b>>} })

\* a / b
FDiv(a, b) == Only({ Quotient(p[1], p[2]) : p \in {<<a, b>>} })

\* the float64 that the decimal literal of the fraction n / d stands for:
\* the nearest to it
Float(n, d) == FDiv(F(n), F(d))

\* numpy.array(list, dtype=float) of a list of integers
ndarray(list) == [k \in 1..Len(list) |-> F(list[k])]

\* the cast of a float64 to int64, as a float: the fraction is cut off;
\* nan, the infinities and the numbers outside int64 give -2^63
Trunc(x) ==
    Only({ IF v.c # "fin" \/ v.e + BitLen(v.m) > 63
           THEN [c |-> "fin", s |-> 1, m |-> <<1>>, e |-> 63]
           ELSE IF v.e >= 0 THEN (IF v.m = <<>> THEN Zero(0) ELSE v)
           ELSE Only({ IF q = <<>> THEN Zero(0) ELSE Exact(v.s, q, 0)
                     : q \in {ShiftRight(v.m, -v.e)} })
         : v \in {x} })

\* what a function of numpy or of the process package returns: a numpy
\* integer, a numpy float, or None
Int64(i) == [type |-> "int64", v |-> F(i)]
Float64(x) == [type |-> "float64", v |-> x]
ReturnNone == [type |-> "NoneType", v |-> nan]

(***************************************************************************)
(*        process/tools.py: lin_interp_from_first_max                      *)
(***************************************************************************)
LEFT == "left"
RIGHT == "right"

\* array[i] for a python index i, from 0 and from the end when negative
Item(array, i) == IF i < 0 THEN array[Len(array) + i + 1] ELSE array[i + 1]

\* the indices of the items that are nan
NanAt(array) == {i \in 0..(Len(array) - 1) : Item(array, i).c = "nan"}

\* the last index of the largest value: a variant that anchors on the last
\* of several equal peaks
argmax_Last(array) ==
    CHOOSE i \in 0..(Len(array) - 1) :
        IF NanAt(array) # {} THEN i \in NanAt(array) /\ \A j \in NanAt(array) : j <= i
        ELSE /\ \A j \in 0..(Len(array) - 1) : FLe(Item(array, j), Item(array, i))
             /\ \A j \in (i + 1)..(Len(array) - 1) : FLt(Item(array, j), Item(array, i))

\* numpy.argmax: the first index of the largest value, and of the first nan
\* of an array that has one
argmax(array) ==
    CHOOSE i \in 0..(Len(array) - 1) :
        IF NanAt(array) # {} THEN i \in NanAt(array) /\ \A j \in NanAt(array) : i <= j
        ELSE /\ \A j \in 0..(Len(array) - 1) : FLe(Item(array, j), Item(array, i))
             /\ \A j \in 0..(i - 1) : FLt(Item(array, j), Item(array, i))

\* tools.py:26-64 with index_peak given
interp_from(array, threshold, direction, index_peak) ==
    Only({ IF FEq(threshold, F(1)) THEN [raise |-> "", return |-> Int64(index_peak)]
           ELSE IF direction = RIGHT
           THEN IF index_peak = Len(array)
                THEN [raise |-> "", return |-> Int64(index_peak)]
                ELSE Only({ IF candidates = {}
                            THEN [raise |-> "", return |-> ReturnNone]
                            ELSE Only({ LET value_found == Item(array, index_found)
                                            index_prev == index_found - 1
                                            value_prev == Item(array, index_prev)
                                            index_gap ==
                                               FDiv(FSub(value_prev, target_value),
                                                    FSub(value_prev, value_found))
                                        IN IF FEq(value_found, target_value)
                                           THEN [raise |-> "",
                                                 return |-> Int64(index_found)]
                                           ELSE [raise |-> "",
                                                 return |-> Float64(
                                                    FAdd(F(index_prev), index_gap))]
                                      : index_found \in
                                           {CHOOSE k \in candidates :
                                               \A m \in candidates : k <= m} })
                          : candidates \in
                               {{k \in index_peak..(Len(array) - 1) :
                                    FLe(Item(array, k), target_value)}} })
           ELSE IF direction = LEFT
           THEN IF index_peak = 0
                THEN [raise |-> "", return |-> Int64(index_peak)]
                ELSE Only({ IF candidates = {}
                            THEN [raise |-> "", return |-> ReturnNone]
                            ELSE Only({ LET value_found == Item(array, index_found)
                                            index_prev == index_found + 1
                                            value_prev == Item(array, index_prev)
                                            index_gap ==
                                               FDiv(FSub(value_prev, target_value),
                                                    FSub(value_prev, value_found))
                                        IN IF FEq(value_found, target_value)
                                           THEN [raise |-> "",
                                                 return |-> Int64(index_found)]
                                           ELSE [raise |-> "",
                                                 return |-> Float64(
                                                    FSub(F(index_prev), index_gap))]
                                      : index_found \in
                                           {CHOOSE k \in candidates :
                                               \A m \in candidates : m <= k} })
                          : candidates \in
                               {{k \in 0..(index_peak - 1) :
                                    FLe(Item(array, k), target_value)}} })
           ELSE [raise |-> "ValueError", return |-> ReturnNone]
         : target_value \in {FMul(Item(array, index_peak), threshold)} })

\* tools.py:14-64
lin_interp_from_first_max(array, threshold, direction) ==
    Only({ interp_from(array, threshold, direction, index_peak)
         : index_peak \in {argmax(array)} })

\* the rows of length 1..MaxBins over 0..MaxValue
Rows == UNION { [1..len -> {F(v) : v \in 0..MaxValue}] : len \in 1..MaxBins }

Thresholds == { Float(k, ThresholdDen) : k \in 1..ThresholdDen }

\* a symmetric pulse: the values 0, 2, 4, 6, 8, 6, 4, 2, 0
Pulse == ndarray([k \in 1..9 |-> IF k <= 5 THEN 2 * (k - 1) ELSE 2 * (9 - k)])

\* a step from 63 to 90: 90 * 0.7 is rounded to the float64 under 63
Step == ndarray(<<63, 90>>)

\* the state before a call of a function of the process package
InitCall(name, arguments) ==
    /\ loader = name
    /\ args \in arguments
    /\ file = <<>>
    /\ cursor = 0
    /\ pc = "call"
    /\ session = <<>>
    /\ log = <<>>
    /\ error = NoError
    /\ als = AlsLocals0
    /\ asiras = AsirasLocals0
    /\ proc = NoLocals

\* one call of lin_interp_from_first_max: every row with every threshold in
\* both directions, the pulse with the threshold 0.5, the step with the
\* threshold 0.7, and a direction that is none of the two
InitInterp ==
    InitCall("lin_interp_from_first_max",
        { [array |-> a, threshold |-> t, direction |-> d] :
             a \in Rows, t \in Thresholds, d \in {LEFT, RIGHT} }
        \cup { [array |-> Pulse, threshold |-> Float(1, 2), direction |-> d] :
                  d \in {LEFT, RIGHT} }
        \cup { [array |-> Step, threshold |-> Float(7, 10), direction |-> d] :
                  d \in {LEFT, RIGHT} }
        \cup { [array |-> a, threshold |-> Float(1, 2), direction |-> "up"] :
                  a \in [1..2 -> {F(v) : v \in 0..MaxValue}] })

\* tools.py:25-61, the call returns
LinInterpReturn ==
    /\ loader = "lin_interp_from_first_max" /\ pc = "call"
    /\ \E r \in {lin_interp_from_first_max(args.array, args.threshold,
                                          args.direction)} :
          /\ r.raise = ""
          /\ proc' = [return |-> r.return]
    /\ pc' = "done"
    /\ UNCHANGED <<loader, args, file, cursor, session, log, error, als, asiras>>

\* tools.py:63-64
LinInterpRaise ==
    /\ loader = "lin_interp_from_first_max" /\ pc = "call"
    /\ \E r \in {lin_interp_from_first_max(args.array, args.threshold,
                                          args.direction)} :
          /\ r.raise # ""
          /\ Raise(r.raise, "lin_interp_from_first_max")
    /\ UNCHANGED <<loader, args, file, cursor, session, log, als, asiras, proc>>

NextInterp == LinInterpReturn \/ LinInterpRaise

SpecInterp == InitInterp /\ [][NextInterp]_vars

(***************************************************************************)
(*        process/tools.py: calc_tfmra_elevation                           *)
(*        process/process.py: create_tfmra_table                           *)
(***************************************************************************)
MaxRows == 2           \* a waveform has 0..MaxRows rows (observations)

\* config.py:389
bin_size == Float(109787, 1000000)

\* numpy.apply_along_axis(f, 1, waveform), given the values f returns for
\* the rows in turn.  The result of row 0 fixes the dtype of the buffer:
\* object for None, int64 for a numpy integer, float64 for a numpy float.
\* The results of the other rows are cast to it on assignment: a float is
\* cut off to an integer, None cannot be cast to an integer and is nan as a
\* float.  A waveform without rows is refused.
apply_along_axis(results) ==
    IF results = <<>> THEN [raise |-> "ValueError", dtype |-> "", items |-> <<>>]
    ELSE LET res == results[1]
             dtype == IF res.type = "NoneType" THEN "object" ELSE res.type
             rest == 2..Len(results)
         IN IF dtype = "int64" /\ \E k \in rest : results[k].type = "NoneType"
            THEN [raise |-> "TypeError", dtype |-> dtype, items |-> <<>>]
            ELSE [raise |-> "", dtype |-> dtype,
                  items |-> [k \in 1..Len(results) |->
                     IF dtype = "object" THEN results[k]
                     ELSE IF dtype = "int64" THEN Trunc(results[k].v)
                     ELSE results[k].v]]

\* array * bin_size: the items of an object array are multiplied one by
\* one, and None * float raises TypeError
TimesBinSize(array, size) ==
    IF array.dtype = "object" /\ \E k \in 1..Len(array.items) :
                                     array.items[k].type = "NoneType"
    THEN [raise |-> "TypeError", items |-> <<>>]
    ELSE [raise |-> "",
          items |-> [k \in 1..Len(array.items) |->
                       IF array.dtype = "object"
                       THEN FMul(array.items[k].v, size)
                       ELSE FMul(array.items[k], size)]]

\* tools.py:140-146  the column of elevations of one threshold
ElevationColumn(waveform, first_bin_elvtn, threshold, size) ==
    Only({ IF indices.raise # ""
           THEN [raise |-> indices.raise, column |-> <<>>]
           ELSE Only({ IF scaled.raise # ""
                       THEN [raise |-> scaled.raise, column |-> <<>>]
                       ELSE [raise |-> "",
                             column |-> [k \in 1..Len(waveform) |->
                                           FSub(first_bin_elvtn[k], scaled.items[k])]]
                     : scaled \in {TimesBinSize(indices, size)} })
         : indices \in
              {apply_along_axis(
                  [k \in 1..Len(waveform) |->
                      lin_interp_from_first_max(waveform[k], threshold,
                                                LEFT).return])} })

\* numpy.ndarray.T of a matrix of the given number of columns, and
\* reshape(-1, 1): the items row after row
Transpose(matrix, columns) ==
    [c \in 1..columns |-> [r \in 1..Len(matrix) |-> matrix[r][c]]]
Ravel(matrix) == Flatten(matrix)

\* numpy.tile(array, reps): array repeated reps times in a row, and
\* numpy.tile(array, (rows, 1)): a matrix of rows copies of array
tile(array, reps) == Flatten([k \in 1..reps |-> array])
tile_rows(array, rows) == [k \in 1..rows |-> array]

\* numpy.hstack of three columns, and tolist: rows of three floats
hstack(a, b, c) == [k \in 1..Len(a) |-> <<a[k], b[k], c[k]>>]

\* process.py:524-541
TfmraOutData(elevations, waveform_id, thresholds) ==
    LET n == Len(waveform_id)
        tfmra_elvtns == Ravel(Transpose(elevations, Len(thresholds)))
        tfmra_labels == Ravel(Transpose(tile_rows(thresholds, n), Len(thresholds)))
        id_labels == tile([k \in 1..n |-> F(waveform_id[k])], Len(thresholds))
    IN hstack(id_labels, tfmra_labels, tfmra_elvtns)

\* rows of three bins: a peak reached by a rise through the target, by a
\* step over it, with no bin at or under a low target left of it, a peak in
\* the first bin, and a peak after two empty bins
TfmraRows ==
    { ndarray(row) :
        row \in { <<0, 1, 2>>, <<0, 2, 1>>, <<1, 2, 0>>, <<2, 1, 0>>, <<0, 0, 2>> } }

ThresholdLists ==
    { << Float(1, 4) >>, << Float(1, 2) >>,
      << Float(1, 4), Float(1, 2) >>, << Float(1, 2), F(1) >> }

\* one call of create_tfmra_table: the output table is there or not; the
\* waveform has 0..MaxRows rows, row k with the id 100 + k and the first
\* bin at the elevation 10 + k
InitTfmra ==
    InitCall("create_tfmra_table",
        { [out_table |-> "asr_tfmra", table_exists |-> e,
           col_config |-> << <<"id_asr", "integer">>,
                             <<"tfmra_threshold", "double precision">>,
                             <<"tfmra_elvtn", "double precision">> >>,
           scaled_waveform |-> w,
           first_bin_elvtn |-> [k \in 1..Len(w) |-> F(10 + k)],
           waveform_id |-> [k \in 1..Len(w) |-> 100 + k],
           retracker_thresholds |-> ts,
           bin_size |-> bin_size,
           simple_index_cols |-> s] :
          e \in BOOLEAN, ts \in ThresholdLists,
          s \in {<<>>, <<"id_asr", "tfmra_threshold">>},
          w \in UNION { [1..n -> TfmraRows] : n \in 0..MaxRows } })

\* process.py:520-522
TfmraSkip ==
    /\ loader = "create_tfmra_table" /\ pc = "call"
    /\ args.table_exists
    /\ log' = Append(log, [event |-> "table_exists", table |-> args.out_table])
    /\ pc' = "done"
    /\ UNCHANGED <<proc, loader, args, file, cursor, session, error, als, asiras>>

\* process.py:525, tools.py:135  elevations = np.empty(...): no column is
\* filled yet
TfmraBegin ==
    /\ loader = "create_tfmra_table" /\ pc = "call"
    /\ ~args.table_exists
    /\ proc' = [i |-> 0, columns |-> <<>>]
    /\ pc' = "threshold"
    /\ UNCHANGED <<loader, args, file, cursor, session, log, error, als, asiras>>

\* tools.py:137-146  one threshold
TfmraThreshold ==
    /\ loader = "create_tfmra_table" /\ pc = "threshold"
    /\ proc.i < Len(args.retracker_thresholds)
    /\ \E c \in {ElevationColumn(args.scaled_waveform, args.first_bin_elvtn,
                                 args.retracker_thresholds[proc.i + 1],
                                 args.bin_size)} :
          /\ c.raise = ""
          /\ proc' = [i |-> proc.i + 1, columns |-> Append(proc.columns, c.column)]
    /\ log' = Append(log, [event |-> "threshold", i |-> proc.i + 1])
    /\ UNCHANGED <<loader, args, file, cursor, pc, session, error, als, asiras>>

\* tools.py:144-146  an exception of apply_along_axis or of the product
\* leaves calc_tfmra_elevation and create_tfmra_table
TfmraThresholdRaise ==
    /\ loader = "create_tfmra_table" /\ pc = "threshold"
    /\ proc.i < Len(args.retracker_thresholds)
    /\ \E c \in {ElevationColumn(args.scaled_waveform, args.first_bin_elvtn,
                                 args.retracker_thresholds[proc.i + 1],
                                 args.bin_size)} :
          /\ c.raise # ""
          /\ Raise(c.raise, "calc_tfmra_elevation")
    /\ log' = Append(log, [event |-> "threshold", i |-> proc.i + 1])
    /\ UNCHANGED <<proc, loader, args, file, cursor, session, als, asiras>>

\* tools.py:148, process.py:524-566
TfmraWrite ==
    /\ loader = "create_tfmra_table" /\ pc = "threshold"
    /\ proc.i = Len(args.retracker_thresholds)
    /\ \E elevations \in {[r \in 1..Len(args.scaled_waveform) |->
                            [c \in 1..proc.i |-> proc.columns[c][r]]]} :
          /\ proc' = [proc EXCEPT !.columns = <<>>] @@ [elevations |-> elevations]
          /\ session' = session \o
               << [op |-> "create_table", table |-> args.out_table,
                   columns |-> args.col_config],
                  [op |-> "insert", table |-> args.out_table,
                   rows |-> TfmraOutData(elevations, args.waveform_id,
                                         args.retracker_thresholds)] >>
               \o (IF args.simple_index_cols # <<>>
                   THEN << [op |-> "create_simple_index", table |-> args.out_table,
                            columns |-> args.simple_index_cols] >>
                   ELSE << >>)
               \o << [op |-> "commit"] >>
    /\ pc' = "done"
    /\ UNCHANGED <<loader, args, file, cursor, log, error, als, asiras>>

NextTfmra ==
    \/ TfmraSkip
    \/ TfmraBegin
    \/ TfmraThreshold
    \/ TfmraThresholdRaise
    \/ TfmraWrite

SpecTfmra == InitTfmra /\ [][NextTfmra]_vars

(***************************************************************************)
(*        process/process.py: create_wshape_table                          *)
(***************************************************************************)
\* config.py:393-396
ppeak_indices_left == <<-3, -2, -1>>
ppeak_indices_right == <<1, 2, 3>>
signal_threshold == Float(1, 100)

\* numpy.argmin: the first index of the smallest value, and of the first
\* nan of an array that has one
argmin(array) ==
    CHOOSE i \in 0..(Len(array) - 1) :
        IF NanAt(array) # {} THEN i \in NanAt(array) /\ \A j \in NanAt(array) : i <= j
        ELSE /\ \A j \in 0..(Len(array) - 1) : FLe(Item(array, i), Item(array, j))
             /\ \A j \in 0..(i - 1) : FLt(Item(array, i), Item(array, j))

\* numpy.sum of a float array of fewer than 8 items: the items are added
\* to 0.0 one by one, from the first
RECURSIVE SumFrom(_, _, _)
SumFrom(array, i, res) ==
    IF i > Len(array) THEN res ELSE SumFrom(array, i + 1, FAdd(res, array[i]))

sum(array) == SumFrom(array, 1, Zero(0))

\* the callables handed to aggregate_relative_indices, by name: np.argmax
\* and np.argmin for starting_index_func, np.sum and list for aggregate_func
Call(func, array) ==
    CASE func = "argmax" -> argmax(array)
      [] func = "argmin" -> argmin(array)
      [] func = "sum" -> sum(array)
      [] func = "list" -> array

\* the function without the lower bound of its filter: a variant in which
\* an offset before bin 0 counts from the end of the array
aggregate_relative_indices_Wrap(array, indices, starting_index_func, aggregate_func) ==
    LET starting_index == Call(starting_index_func, array)
        get_indices == SelectSeq([k \in 1..Len(indices) |-> starting_index + indices[k]],
                                 LAMBDA i : -Len(array) <= i /\ i < Len(array))
    IN Call(aggregate_func, [k \in 1..Len(get_indices) |-> Item(array, get_indices[k])])

\* tools.py:151-168
aggregate_relative_indices(array, indices, starting_index_func, aggregate_func) ==
    LET starting_index == Call(starting_index_func, array)
        get_indices == SelectSeq([k \in 1..Len(indices) |-> starting_index + indices[k]],
                                 LAMBDA i : 0 <= i /\ i < Len(array))
    IN Call(aggregate_func, [k \in 1..Len(get_indices) |-> Item(array, get_indices[k])])

\* array[array == 0] = np.nan
GuardZero(array) ==
    [k \in 1..Len(array) |-> IF FEq(array[k], F(0)) THEN nan ELSE array[k]]

\* a / b of two float arrays, and whether some divisor is zero (numpy
\* issues a RuntimeWarning then)
Divide(a, b) == [k \in 1..Len(a) |-> FDiv(a[k], b[k])]
DividesByZero(b) == \E k \in 1..Len(b) : FEq(b[k], F(0))

\* process.py:591-619: the peak and the three peakiness values of every row
Peakiness(waveform) ==
    LET n == Len(waveform)
        peak_value == [k \in 1..n |-> Item(waveform[k], argmax(waveform[k]))]
        peak_index == [k \in 1..n |-> argmax(waveform[k])]
        sum_of(indices) ==
            apply_along_axis([k \in 1..n |-> Float64(
               aggregate_relative_indices(waveform[k], indices, "argmax", "sum"))])
    IN Only({ IF sums[2].raise # ""
              THEN [raise |-> sums[2].raise]
              ELSE [raise |-> "",
                    peak_value |-> peak_value,
                    peak_index |-> peak_index,
                    sum_full |-> GuardZero(sums[1]),
                    ppeak_full |-> Divide(peak_value, sums[1]),
                    ppeak_left |-> Divide(peak_value, GuardZero(sums[2].items)),
                    ppeak_right |-> Divide(peak_value, GuardZero(sums[3].items)),
                    warning |-> DividesByZero(sums[1])]
            : sums \in {<< [k \in 1..n |-> sum(waveform[k])],
                           sum_of(ppeak_indices_left),
                           sum_of(ppeak_indices_right) >>} })

\* np.ndarray.astype(array, dtype=float): None of an object array is nan
astype_float(array) ==
    [k \in 1..Len(array.items) |->
        IF array.dtype = "object" THEN array.items[k].v ELSE array.items[k]]

\* process.py:625-646: the bounds of the signal and the three widths
ReturnWidth(waveform, peak_index, size) ==
    LET n == Len(waveform)
        bound(direction) ==
            apply_along_axis([k \in 1..n |->
                lin_interp_from_first_max(waveform[k], signal_threshold,
                                          direction).return])
    IN Only({ IF bounds[1].raise # "" THEN [raise |-> bounds[1].raise]
              ELSE IF bounds[2].raise # "" THEN [raise |-> bounds[2].raise]
              ELSE Only({ [raise |-> "",
                           return_bound_left |-> astype_float(bounds[1]),
                           return_bound_right |-> astype_float(bounds[2]),
                           rwidth_left |-> rwidth[1],
                           rwidth_right |-> rwidth[2],
                           rwidth_full |-> [k \in 1..n |->
                                              FAdd(rwidth[1][k], rwidth[2][k])]]
                        : rwidth \in
                             {<< [k \in 1..n |->
                                    FMul(FSub(F(peak_index[k]),
                                              astype_float(bounds[1])[k]), size)],
                                 [k \in 1..n |->
                                    FMul(FAdd(F(peak_index[k]),
                                              astype_float(bounds[2])[k]), size)] >>} })
            : bounds \in {<<bound(LEFT), bound(RIGHT)>>} })

\* rows of three bins: no signal, a peak whose row sums to zero, a peak
\* after two empty bins, in the middle, in the first bin, and in the middle
\* of a row that is symmetric about it
WshapeRows ==
    { ndarray(row) :
        row \in { <<0, 0, 0>>, <<2, -1, -1>>, <<0, 0, 2>>, <<0, 2, 1>>, <<1, 2, 0>>,
                  <<2, 1, 0>>, <<0, 2, 0>> } }

\* one call of create_wshape_table: the output table is there or not; the
\* waveform has 0..MaxRows rows, row k with the id 100 + k
InitWshape ==
    InitCall("create_wshape_table",
        { [out_table |-> "asr_wshape", table_exists |-> e,
           col_config |-> << <<"id_asr", "integer">>,
                             <<"ppeak", "double precision">>,
                             <<"ppeak_left", "double precision">>,
                             <<"ppeak_right", "double precision">>,
                             <<"rwidth", "double precision">>,
                             <<"rwidth_left", "double precision">>,
                             <<"rwidth_right", "double precision">> >>,
           scaled_waveform |-> w,
           waveform_id |-> [k \in 1..Len(w) |-> 100 + k],
           bin_size |-> bin_size,
           simple_index_cols |-> s] :
          e \in BOOLEAN, s \in {<<>>, <<"id_asr">>},
          w \in UNION { [1..n -> WshapeRows] : n \in 0..MaxRows } })

\* process.py:587-589
WshapeSkip ==
    /\ loader = "create_wshape_table" /\ pc = "call"
    /\ args.table_exists
    /\ log' = Append(log, [event |-> "table_exists", table |-> args.out_table])
    /\ pc' = "done"
    /\ UNCHANGED <<proc, loader, args, file, cursor, session, error, als, asiras>>

\* process.py:591-619
WshapePeakiness ==
    /\ loader = "create_wshape_table" /\ pc = "call"
    /\ ~args.table_exists
    /\ \E p \in {Peakiness(args.scaled_waveform)} :
          /\ p.raise = ""
          /\ proc' = p
          /\ log' = IF p.warning
                    THEN Append(log, [event |-> "RuntimeWarning", at |-> "ppeak_full"])
                    ELSE log
    /\ pc' = "width"
    /\ UNCHANGED <<loader, args, file, cursor, session, error, als, asiras>>

\* process.py:602-607  apply_along_axis refuses a waveform without rows
WshapePeakinessRaise ==
    /\ loader = "create_wshape_table" /\ pc = "call"
    /\ ~args.table_exists
    /\ \E p \in {Peakiness(args.scaled_waveform)} :
          /\ p.raise # ""
          /\ Raise(p.raise, "sum_left")
    /\ UNCHANGED <<proc, loader, args, file, cursor, session, log, als, asiras>>

\* process.py:621-646
WshapeWidth ==
    /\ loader = "create_wshape_table" /\ pc = "width"
    /\ \E w \in {ReturnWidth(args.scaled_waveform, proc.peak_index, args.bin_size)} :
          /\ w.raise = ""
          /\ proc' = proc @@ w
    /\ pc' = "write"
    /\ UNCHANGED <<loader, args, file, cursor, session, log, error, als, asiras>>

\* process.py:625-642  apply_along_axis cannot store None in the integer
\* buffer that an integer result of row 0 gives it
WshapeWidthRaise ==
    /\ loader = "create_wshape_table" /\ pc = "width"
    /\ \E w \in {ReturnWidth(args.scaled_waveform, proc.peak_index, args.bin_size)} :
          /\ w.raise # ""
          /\ Raise(w.raise, "return_bound")
    /\ UNCHANGED <<proc, loader, args, file, cursor, session, log, als, asiras>>

\* process.py:664-677
WshapeWrite ==
    /\ loader = "create_wshape_table" /\ pc = "write"
    /\ session' = session \o
         << [op |-> "create_table", table |-> args.out_table,
             columns |-> args.col_config],
            [op |-> "insert", table |-> args.out_table,
             rows |-> [k \in 1..Len(args.waveform_id) |->
                         << F(args.waveform_id[k]),
                            proc.ppeak_full[k], proc.ppeak_left[k], proc.ppeak_right[k],
                            proc.rwidth_full[k], proc.rwidth_left[k],
                            proc.rwidth_right[k] >>]] >>
         \o (IF args.simple_index_cols # <<>>
             THEN << [op |-> "create_simple_index", table |-> args.out_table,
                      columns |-> args.simple_index_cols] >>
             ELSE << >>)
         \o << [op |-> "commit"] >>
    /\ pc' = "done"
    /\ UNCHANGED <<proc, loader, args, file, cursor, log, error, als, asiras>>

NextWshape ==
    \/ WshapeSkip
    \/ WshapePeakiness
    \/ WshapePeakinessRaise
    \/ WshapeWidth
    \/ WshapeWidthRaise
    \/ WshapeWrite

SpecWshape == InitWshape /\ [][NextWshape]_vars

(***************************************************************************)
(*        process/tools.py: aggregate_relative_indices                     *)
(***************************************************************************)
\* lists of offsets: the two windows of the configuration, a window on both
\* sides of the anchor, offsets that are not in order, and no offset
OffsetLists ==
    { ppeak_indices_left, ppeak_indices_right, <<-1, 0, 1>>, <<2, -2, 1, -1>>, <<>> }

\* one call of aggregate_relative_indices: every row with every list of
\* offsets, anchored on its first largest or first smallest bin, the
\* selection summed or returned as it is
InitAggregate ==
    InitCall("aggregate_relative_indices",
        { [array |-> a, indices |-> o, starting_index_func |-> s,
           aggregate_func |-> g] :
             a \in Rows, o \in OffsetLists, s \in {"argmax", "argmin"},
             g \in {"sum", "list"} })

\* tools.py:162-168, the call returns
AggregateReturn ==
    /\ loader = "aggregate_relative_indices" /\ pc = "call"
    /\ proc' = [return |-> aggregate_relative_indices(args.array, args.indices,
                               args.starting_index_func, args.aggregate_func)]
    /\ pc' = "done"
    /\ UNCHANGED <<loader, args, file, cursor, session, log, error, als, asiras>>

NextAggregate == AggregateReturn

SpecAggregate == InitAggregate /\ [][NextAggregate]_vars

(***************************************************************************)
(*        process/process.py: Process.waveform_processing                  *)
(* One call on a database that has each of the three output tables or not. *)
(***************************************************************************)
tfmra_table == "asr_tfmra"
wshape_table == "asr_wshape"
wscaled_table == "asr_wscaled"
waveform_table == "asiras"
output_tables == <<tfmra_table, wshape_table, wscaled_table>>

\* config.py:14  CONST.c, the speed of light in m/s
speed_of_light == 299792458

tfmra_col_config ==
    << <<"id_asr", "integer">>, <<"tfmra_threshold", "double precision">>,
       <<"tfmra_elvtn", "double precision">> >>
wshape_col_config ==
    << <<"id_asr", "integer">>, <<"ppeak", "double precision">>,
       <<"ppeak_left", "double precision">>, <<"ppeak_right", "double precision">>,
       <<"rwidth", "double precision">>, <<"rwidth_left", "double precision">>,
       <<"rwidth_right", "double precision">> >>
wscaled_col_config ==
    << <<"id_asr", "integer">>, <<"scaled_waveform", "double precision[]">> >>

\* 2 ** n of a whole number n
Pow2(n) == Round(0, <<1>>, n)

\* tools.py:67-88  10e-9 * 2 ** pow2_factor * lin_factor * waveform, row by
\* row and from the left; pow2_factor holds the whole numbers that the
\* array of floats has
calc_scaled_waveform(waveform, lin_factor, pow2_factor) ==
    [k \in 1..Len(waveform) |->
        Only({ [b \in 1..Len(waveform[k]) |->
                   FMul(scale, waveform[k][b])]
             : scale \in {FMul(FMul(Float(1, 100000000), Pow2(pow2_factor[k])),
                                lin_factor[k])} })]

\* tools.py:91-119
calc_first_bin_elvtn(size, rwc_delay, sensor_elvtn, num_bins) ==
    LET rwc_size == FMul(size, F(num_bins))
        rwc_half == FDiv(rwc_size, F(2))
    IN [k \in 1..Len(rwc_delay) |->
          LET rwc_dist == FMul(FMul(rwc_delay[k], Float(1, 2)), F(speed_of_light))
              first_bin_dist == FSub(rwc_dist, rwc_half)
          IN FSub(sensor_elvtn[k], first_bin_dist)]

\* tools.py:122-148  the elevations of every row and threshold, or the
\* exception of the first threshold that raises one
calc_tfmra_elevation(thresholds, waveform, first_bin_elvtn, size) ==
    CHOOSE result \in
       { IF \E t \in 1..Len(thresholds) : columns[t].raise # ""
         THEN [raise |-> columns[CHOOSE t \in 1..Len(thresholds) :
                                    /\ columns[t].raise # ""
                                    /\ \A u \in 1..(t - 1) : columns[u].raise = ""].raise,
               elevations |-> <<>>]
         ELSE [raise |-> "",
               elevations |-> [r \in 1..Len(waveform) |->
                                 [t \in 1..Len(thresholds) |-> columns[t].column[r]]]] :
         columns \in { [t \in 1..Len(thresholds) |->
                          ElevationColumn(waveform, first_bin_elvtn,
                                          thresholds[t], size)] } } : TRUE

\* the observations of the source table: a waveform of three bins, its two
\* scale factors, a window delay that puts the centre of the range window
\* 3 m under the sensor, and the altitude 14 m
SourceRows ==
    { [linear_scale_factor |-> f[1], power2_scale_factor |-> f[2],
       window_delay |-> Float(6, speed_of_light), altitude |-> 14, ml_power_echo |-> w] :
         f \in {<<1, 0>>, <<2, 1>>},
         w \in {<<0, 1, 2>>, <<2, 1, 0>>, <<1, 2, 0>>} }

\* a call of waveform_processing: which output tables the database has, and
\* the source table of 0..MaxRows observations, row k with the id 100 + k
InitWaveform ==
    InitCall("waveform_processing",
        { [exists |-> e, source |-> s, retracker_thresholds |-> ts,
           bin_size |-> bin_size] :
            e \in [{tfmra_table, wshape_table, wscaled_table} -> BOOLEAN],
            ts \in { << Float(1, 4), Float(1, 2) >>, << Float(1, 2), F(1) >> },
            s \in UNION { [1..n -> SourceRows] : n \in 0..MaxRows } })

\* session.table_exists(table) now: the table was there at the start of the
\* call, or the session has made it since
TableExists(table) ==
    \/ args.exists[table]
    \/ \E k \in 1..Len(session) :
          session[k].op = "create_table" /\ session[k].table = table

\* process.py:441-443  the three questions to the database
ExistQueries ==
    [k \in 1..Len(output_tables) |-> [op |-> "table_exists", table |-> output_tables[k]]]

\* the return without the test of process.py:446: a variant that goes on
\* to read the source table when every output table is there
WaveformReturn_Never ==
    /\ loader = "waveform_processing" /\ pc = "call"
    /\ \A k \in 1..Len(output_tables) : args.exists[output_tables[k]]
    /\ session' = session \o ExistQueries
                  \o << [op |-> "select", table |-> waveform_table] >>
    /\ pc' = "done"
    /\ UNCHANGED <<proc, loader, args, file, cursor, log, error, als, asiras>>

\* process.py:441-448  every output table is there: nothing is read
WaveformReturn ==
    /\ loader = "waveform_processing" /\ pc = "call"
    /\ \A k \in 1..Len(output_tables) : args.exists[output_tables[k]]
    /\ session' = session \o ExistQueries
    /\ log' = Append(log, [event |-> "all_tables_exist"])
    /\ pc' = "done"
    /\ UNCHANGED <<proc, loader, args, file, cursor, error, als, asiras>>

\* process.py:450-480  the source table is read, the waveform scaled and
\* the elevation of the first bin computed
WaveformRead ==
    /\ loader = "waveform_processing" /\ pc = "call"
    /\ \E k \in 1..Len(output_tables) : ~args.exists[output_tables[k]]
    /\ args.source # <<>>
    /\ session' = session \o ExistQueries
                  \o << [op |-> "select", table |-> waveform_table] >>
    /\ \E s \in {args.source} : \E n \in {Len(args.source)} :
          proc' = [waveform_id |-> [k \in 1..n |-> 100 + k],
                   scaled_waveform |->
                      calc_scaled_waveform(
                         [k \in 1..n |-> ndarray(s[k].ml_power_echo)],
                         [k \in 1..n |-> F(s[k].linear_scale_factor)],
                         [k \in 1..n |-> s[k].power2_scale_factor]),
                   first_bin_elvtn |->
                      calc_first_bin_elvtn(args.bin_size,
                         [k \in 1..n |-> s[k].window_delay],
                         [k \in 1..n |-> F(s[k].altitude)],
                         Len(s[1].ml_power_echo))]
    /\ pc' = "tfmra"
    /\ UNCHANGED <<loader, args, file, cursor, log, error, als, asiras>>

\* process.py:457-463  a source table without rows gives no columns:
\* read_cols[0] raises IndexError
WaveformReadRaise ==
    /\ loader = "waveform_processing" /\ pc = "call"
    /\ \E k \in 1..Len(output_tables) : ~args.exists[output_tables[k]]
    /\ args.source = <<>>
    /\ session' = session \o ExistQueries
                  \o << [op |-> "select", table |-> waveform_table] >>
    /\ Raise("IndexError", "read_cols")
    /\ UNCHANGED <<proc, loader, args, file, cursor, log, als, asiras>>

\* process.py:520-522, 587-589, 693-695  a table that is there is left
\* alone
WaveformSkip ==
    /\ loader = "waveform_processing"
    /\ \E k \in 1..Len(output_tables) :
          /\ pc = <<"tfmra", "wshape", "wscaled">>[k]
          /\ TableExists(output_tables[k])
          /\ session' = Append(session, [op |-> "table_exists",
                                         table |-> output_tables[k]])
          /\ log' = Append(log, [event |-> "table_exists",
                                 table |-> output_tables[k]])
          /\ pc' = <<"wshape", "wscaled", "done">>[k]
    /\ UNCHANGED <<proc, loader, args, file, cursor, error, als, asiras>>

\* process.py:482-487, 502-566  create_tfmra_table
WaveformTfmra ==
    /\ loader = "waveform_processing" /\ pc = "tfmra"
    /\ ~TableExists(tfmra_table)
    /\ \E e \in {calc_tfmra_elevation(args.retracker_thresholds,
                                      proc.scaled_waveform,
                                      proc.first_bin_elvtn, args.bin_size)} :
          IF e.raise # ""
          THEN /\ session' = Append(session, [op |-> "table_exists",
                                              table |-> tfmra_table])
               /\ Raise(e.raise, "calc_tfmra_elevation")
          ELSE /\ session' = session \o
                    << [op |-> "table_exists", table |-> tfmra_table],
                       [op |-> "create_table", table |-> tfmra_table,
                        columns |-> tfmra_col_config],
                       [op |-> "insert", table |-> tfmra_table,
                        rows |-> TfmraOutData(e.elevations, proc.waveform_id,
                                              args.retracker_thresholds)],
                       [op |-> "create_simple_index", table |-> tfmra_table,
                        columns |-> <<"id_asr", "tfmra_threshold">>],
                       [op |-> "commit"] >>
               /\ pc' = "wshape"
               /\ UNCHANGED error
    /\ UNCHANGED <<proc, loader, args, file, cursor, log, als, asiras>>

\* process.py:489-494, 568-677  create_wshape_table
WaveformWshape ==
    /\ loader = "waveform_processing" /\ pc = "wshape"
    /\ ~TableExists(wshape_table)
    /\ \E p \in {Peakiness(proc.scaled_waveform)} :
       \E w \in {IF p.raise # "" THEN p
                 ELSE ReturnWidth(proc.scaled_waveform, p.peak_index,
                                  args.bin_size)} :
          IF w.raise # ""
          THEN /\ session' = Append(session, [op |-> "table_exists",
                                              table |-> wshape_table])
               /\ Raise(w.raise, "return_bound")
          ELSE /\ session' = session \o
                    << [op |-> "table_exists", table |-> wshape_table],
                       [op |-> "create_table", table |-> wshape_table,
                        columns |-> wshape_col_config],
                       [op |-> "insert", table |-> wshape_table,
                        rows |-> [k \in 1..Len(proc.waveform_id) |->
                                    << F(proc.waveform_id[k]),
                                       p.ppeak_full[k], p.ppeak_left[k],
                                       p.ppeak_right[k], w.rwidth_full[k],
                                       w.rwidth_left[k], w.rwidth_right[k] >>]],
                       [op |-> "create_simple_index", table |-> wshape_table,
                        columns |-> <<"id_asr">>],
                       [op |-> "commit"] >>
               /\ pc' = "wscaled"
               /\ UNCHANGED error
    /\ UNCHANGED <<proc, loader, args, file, cursor, log, als, asiras>>

\* process.py:496-500, 679-721  create_wscaled_table
WaveformWscaled ==
    /\ loader = "waveform_processing" /\ pc = "wscaled"
    /\ ~TableExists(wscaled_table)
    /\ session' = session \o
         << [op |-> "table_exists", table |-> wscaled_table],
            [op |-> "create_table", table |-> wscaled_table,
             columns |-> wscaled_col_config],
            [op |-> "insert", table |-> wscaled_table,
             rows |-> [k \in 1..Len(proc.waveform_id) |->
                         << proc.waveform_id[k],
                            proc.scaled_waveform[k] >>]],
            [op |-> "create_simple_index", table |-> wscaled_table,
             columns |-> <<"id_asr">>],
            [op |-> "commit"] >>
    /\ pc' = "done"
    /\ UNCHANGED <<proc, loader, args, file, cursor, log, error, als, asiras>>

NextWaveform ==
    \/ WaveformReturn
    \/ WaveformRead
    \/ WaveformReadRaise
    \/ WaveformSkip
    \/ WaveformTfmra
    \/ WaveformWshape
    \/ WaveformWscaled

\* one step of the pipeline: load_als, load_asiras or waveform_processing
InitPipeline == InitLoad \/ InitWaveform
NextPipeline == NextLoad \/ NextWaveform
SpecPipeline == InitPipeline /\ [][NextPipeline]_vars

(***************************************************************************)
(*        postgis/session.py: Session and new_session                      *)
(* The body of a with new_session(...) block makes requests to the session *)
(* it is given and leaves normally or by an exception; requests to the     *)
(* session object may follow the block.  proc.connected is the attribute   *)
(* __connected of the session, proc.calls the requests made so far with    *)
(* what each raised and how many statements it sent.                       *)
(***************************************************************************)
MaxRequests == 3       \* a run makes up to MaxRequests requests to the session

\* session.py:117-120  the exception check_connected raises, "" for none
check_connected(connected) == IF connected THEN "" ELSE "InterfaceError"

\* session.py:122-128
_cursor(connected) ==
    IF check_connected(connected) # ""
    THEN [raised |-> check_connected(connected), sent |-> <<>>]
    ELSE [raised |-> "", sent |-> << [op |-> "cursor"] >>]

\* session.py:191-203  format_query called with args = None: without
\* ensure_table_schema the call format(*args, **kwargs) raises TypeError
format_query(ensure_table_schema) ==
    IF ensure_table_schema THEN "" ELSE "TypeError"

\* session.py:213-289
execute_query(connected, query) ==
    IF check_connected(connected) # ""
    THEN [raised |-> check_connected(connected), sent |-> <<>>]
    ELSE [raised |-> "",
          sent |-> _cursor(connected).sent \o << [op |-> "execute", query |-> query] >>]

\* session.py:291-297
table_exists(connected, ensure_table_schema, table) ==
    IF format_query(ensure_table_schema) # ""
    THEN [raised |-> format_query(ensure_table_schema), sent |-> <<>>]
    ELSE execute_query(connected, "table_exists")

\* session.py:604-642, 302-305  there: whether the database has the table
insert(connected, ensure_table_schema, table, there) ==
    LET exists == table_exists(connected, ensure_table_schema, table)
    IN IF exists.raised # "" THEN exists
       ELSE IF ~there THEN [raised |-> "ProgrammingError", sent |-> exists.sent]
       ELSE [raised |-> "",
             sent |-> exists.sent \o _cursor(connected).sent
                      \o << [op |-> "execute_values", table |-> table] >>]

\* a call of new_session whose body has been entered: the session is made
\* and connected (session.py:1073-1076)
InitSession ==
    /\ loader = "new_session"
    /\ args \in { [commit_on_success |-> cs, ensure_table_schema |-> es] :
                    cs \in BOOLEAN, es \in BOOLEAN }
    /\ file = <<>>
    /\ cursor = 0
    /\ pc = "body"
    /\ session = <<>>
    /\ log = <<>>
    /\ error = NoError
    /\ als = AlsLocals0
    /\ asiras = AsirasLocals0
    /\ proc = [connected |-> TRUE, calls |-> <<>>, body_exit |-> ""]

\* a request to the session, in the body or after the block; an exception
\* it raises in the body is handled there or leaves the body
SessionRequest ==
    /\ loader = "new_session" /\ pc \in {"body", "closed"}
    /\ Len(proc.calls) < MaxRequests
    /\ \E kind \in {"execute_query", "insert", "_cursor"} :
       \E there \in BOOLEAN : \E leaves \in BOOLEAN :
       \E r \in {CASE kind = "execute_query" ->
                        execute_query(proc.connected, "select")
                   [] kind = "insert" ->
                        insert(proc.connected, args.ensure_table_schema,
                               "t", there)
                   [] kind = "_cursor" -> _cursor(proc.connected)} :
          /\ session' = session \o r.sent
          /\ IF pc = "body" /\ r.raised # "" /\ leaves
             THEN /\ error' = [type |-> r.raised, at |-> kind]
                  /\ pc' = "finally"
             ELSE UNCHANGED <<pc, error>>
          /\ proc' = [proc EXCEPT
                !.calls = Append(@, [request |-> kind, raised |-> r.raised,
                                     sent |-> Len(r.sent),
                                     closed |-> ~proc.connected]),
                !.body_exit = IF pc = "body" /\ r.raised # "" /\ leaves
                              THEN "exception" ELSE @]
    /\ UNCHANGED <<loader, args, file, cursor, log, als, asiras>>

\* session.py:112-115  the body closes the session itself
SessionBodyClose ==
    /\ loader = "new_session" /\ pc = "body" /\ proc.connected
    /\ session' = Append(session, [op |-> "close", by |-> "body"])
    /\ proc' = [proc EXCEPT !.connected = FALSE]
    /\ UNCHANGED <<loader, args, file, cursor, pc, log, error, als, asiras>>

\* session.py:108-110  the body commits
SessionBodyCommit ==
    /\ loader = "new_session" /\ pc = "body" /\ proc.connected
    /\ \A k \in CallsOf("commit") : FALSE
    /\ session' = Append(session, [op |-> "commit", by |-> "body"])
    /\ UNCHANGED <<proc, loader, args, file, cursor, pc, log, error, als, asiras>>

\* session.py:1079-1080  the body ends normally
SessionBodyReturn ==
    /\ loader = "new_session" /\ pc = "body"
    /\ proc' = [proc EXCEPT !.body_exit = "normal"]
    /\ pc' = IF args.commit_on_success THEN "commit" ELSE "finally"
    /\ UNCHANGED <<loader, args, file, cursor, session, log, error, als, asiras>>

\* session.py:1079  an exception of the body is thrown in at the yield
SessionBodyRaise ==
    /\ loader = "new_session" /\ pc = "body"
    /\ proc' = [proc EXCEPT !.body_exit = "exception"]
    /\ error' = [type |-> "Exception", at |-> "body"]
    /\ pc' = "finally"
    /\ UNCHANGED <<loader, args, file, cursor, session, log, als, asiras>>

\* session.py:1080-1082  the commit of the manager; the connection of a
\* session that the body has closed refuses it
SessionManagerCommit ==
    /\ loader = "new_session" /\ pc = "commit"
    /\ IF proc.connected
       THEN /\ session' = Append(session, [op |-> "commit", by |-> "new_session"])
            /\ log' = Append(log, [event |-> "committed"])
            /\ UNCHANGED error
       ELSE /\ error' = [type |-> "InterfaceError", at |-> "commit"]
            /\ UNCHANGED <<session, log>>
    /\ pc' = "finally"
    /\ UNCHANGED <<proc, loader, args, file, cursor, als, asiras>>

\* session.py:1083-1085  finally: session.close()
SessionManagerClose ==
    /\ loader = "new_session" /\ pc = "finally"
    /\ session' = Append(session, [op |-> "close", by |-> "new_session"])
    /\ proc' = [proc EXCEPT !.connected = FALSE]
    /\ log' = Append(log, [event |-> "closed_connection"])
    /\ pc' = "closed"
    /\ UNCHANGED <<loader, args, file, cursor, error, als, asiras>>

NextSession ==
    \/ SessionRequest
    \/ SessionBodyClose
    \/ SessionBodyCommit
    \/ SessionBodyReturn
    \/ SessionBodyRaise
    \/ SessionManagerCommit
    \/ SessionManagerClose

SpecSession == InitSession /\ [][NextSession]_vars

(***************************************************************************)
(*                            Properties                                   *)
(***************************************************************************)
\* the session.insert calls made so far, in call order
Inserts == SelectSeq(session, LAMBDA call : call.op = "insert")

\* ceil(a / b) for b >= 1
CeilDiv(a, b) == (a + b - 1) \div b

AlsDone == loader = "als" /\ pc = "done"
AsirasDone == loader = "asiras" /\ pc = "done"

\* C1: a completed ALS extraction of N >= 1 lines with lines_to_buffer = B
\* has made exactly ceil(N/B) insert calls; every call but the last covers
\* B lines, the last covers N - B * (ceil(N/B) - 1) lines, and
\* lines_written = N.  A call covering k lines carries at most
\* k * points_per_line rows.
C1_FlushCount ==
    (AlsDone /\ als.num_lines >= 1) =>
        LET B == args.lines_to_buffer
            N == als.num_lines
            calls == CeilDiv(N, B)
        IN /\ Len(Inserts) = calls
           /\ \A i \in 1..(calls - 1) : Inserts[i].lines = B
           /\ Inserts[calls].lines = N - B * (calls - 1)
           /\ \A i \in 1..calls :
                  Len(Inserts[i].rows) <= Inserts[i].lines * als.points_per_line
           /\ als.lines_written = N

\* C1: seven lines in batches of three: flushes of 3, 3 and 1 lines
C1_Witness ==
    /\ AlsDone /\ args.lines_to_buffer = 3 /\ als.num_lines = 7
    /\ [i \in 1..Len(Inserts) |-> Inserts[i].lines] = <<3, 3, 1>>
    /\ als.lines_written = 7

\* the number of rows handed to the sink so far
RowsInserted == SumSeq([i \in 1..Len(Inserts) |-> Len(Inserts[i].rows)])

\* C2: in the ASIRAS extraction an insert follows the read of block k
\* (1 <= k <= num_blocks) if and only if the blocks buffered since the
\* previous flush (the buffer holds rows_per_block rows of each) have
\* reached blocks_to_buffer or k = num_blocks; after every flush, and at
\* completion, blocks_written is the number of blocks read so far and
\* rows_written the number of rows handed to the sink so far.
C2_FlushRule ==
    /\ [][(loader = "asiras" /\ pc = "check") =>
            LET k == asiras.block_num
                since == Len(asiras.buffer) \div rows_per_block
                flushed == Len(Inserts') = Len(Inserts) + 1
            IN /\ k \in 1..asiras.num_blocks
               /\ Len(Inserts') \in {Len(Inserts), Len(Inserts) + 1}
               /\ flushed <=> (since >= args.blocks_to_buffer \/ k = asiras.num_blocks)
               /\ flushed => /\ asiras'.blocks_written = k
                             /\ asiras'.rows_written = RowsInserted'
                             /\ RowsInserted' = k * rows_per_block]_vars
    /\ [](AsirasDone => /\ asiras.blocks_written = asiras.num_blocks
                        /\ asiras.block_num = asiras.num_blocks
                        /\ asiras.rows_written = RowsInserted)

\* C2: three blocks in batches of two: a flush after block 2 for the full
\* buffer and one after block 3 for the end of the data
C2_Witness ==
    /\ AsirasDone /\ asiras.num_blocks = 3 /\ args.blocks_to_buffer = 2
    /\ [i \in 1..Len(Inserts) |-> Len(Inserts[i].rows)]
           = <<2 * rows_per_block, rows_per_block>>
    /\ asiras.blocks_written = 3

\* the rows handed to the sink so far, in call order
RowsWritten == Flatten([i \in 1..Len(Inserts) |-> Inserts[i].rows])

IsPrefix(a, b) == Len(a) <= Len(b) /\ SubSeq(b, 1, Len(a)) = a

\* The points of the complete lines of an ALS file in byte order, read
\* from the file by position: a line is four arrays of points_per_line
\* doubles (time, latitude, longitude, elevation), and point i of line l is
\* (elevation, longitude, latitude) at index i of the last three.
AlsSourcePoints(f) ==
    LET p == f.header[3]
        lines == Min(f.header[2], Len(f.data) \div (4 * p))
    IN [j \in 1..(lines * p) |->
          LET base == 4 * p * ((j - 1) \div p)
              i == ((j - 1) % p) + 1
          IN <<f.data[base + 3 * p + i], f.data[base + 2 * p + i],
               f.data[base + p + i]>>]

\* those of them that the NaN filter lets through
AlsSourceRecords(f) ==
    SelectSeq(AlsSourcePoints(f), LAMBDA pt : \A c \in 1..3 : pt[c] # NaN)

\* The rows of blocks 1..n of an ASIRAS payload that starts at byte start,
\* read from the file by position: row r of block b takes the saved fields
\* of row r of the three decoded groups, each field at the offset that the
\* declared widths of fields_format give it.
AsirasSourceRow(f, start, b, r) ==
    Flatten([g \in 1..3 |->
       LET rules == _get_group_read_rules(">")[g]
           at == start + (b - 1) * BlockBytes + GroupOffset(g)
                     + (r - 1) * GroupStride(g)
           saved == SelectSeq([i \in 1..Len(rules) |-> i],
                              LAMBDA i : fields_format[g][i].name # skip_field)
       IN [k \in 1..Len(saved) |->
             LET rule == rules[saved[k]]
             IN RowItem(rule, unpack(rule.read_format,
                    FileRead(f, at + FieldOffset(g, saved[k]), rule.size)).value)]])

AsirasSourceRecords(f, start, n) ==
    [j \in 1..(n * rows_per_block) |->
        AsirasSourceRow(f, start, ((j - 1) \div rows_per_block) + 1,
                        ((j - 1) % rows_per_block) + 1)]

\* C3: in both extractors the rows handed to the sink, in call order and
\* followed by the rows still buffered, are the decoded and non-filtered
\* records of the source in byte order, as far as they have been read;
\* when the extraction has returned normally the rows handed to the sink
\* are all of them, each once, and the buffer is empty.
C3_RowsInSourceOrder ==
    /\ loader = "als" =>
          /\ IsPrefix(RowsWritten \o als.buffer, AlsSourceRecords(file))
          /\ pc = "done" => /\ RowsWritten = AlsSourceRecords(file)
                            /\ als.buffer = <<>>
    /\ loader = "asiras" =>
          /\ pc = "done" =>
                /\ RowsWritten = AsirasSourceRecords(file, asiras.start_bytes,
                                                     asiras.num_blocks)
                /\ asiras.buffer = <<>>
          /\ pc = "error" =>
                RowsWritten \o asiras.buffer =
                    AsirasSourceRecords(file, asiras.start_bytes,
                                        Max(0, asiras.block_num - 1))

\* C3: a completed ALS run of several batches with a filtered point, and a
\* completed ASIRAS run of several batches
C3_WitnessAls ==
    /\ AlsDone /\ Len(Inserts) >= 2
    /\ RowsWritten # <<>>
    /\ Len(RowsWritten) < als.expected_points

C3_Witness ==
    /\ AsirasDone /\ Len(Inserts) >= 2
    /\ Len(RowsWritten) = 3 * rows_per_block

\* the points of the complete lines of the file that have a NaN value
AlsNanPoints(f) ==
    {j \in 1..Len(AlsSourcePoints(f)) :
        \E c \in 1..3 : AlsSourcePoints(f)[j][c] = NaN}

\* C4: in the ALS extraction no row handed to the sink or held in the
\* buffer has a NaN value, and at completion the rows handed to the sink
\* are the points of the file none of whose three values is NaN, each of
\* them, and the filtered count of the summary, expected_points -
\* points_written, is the number of points of the file with a NaN value.
C4_NanFilter ==
    loader = "als" =>
       /\ \A i \in 1..Len(RowsWritten) : \A c \in 1..3 : RowsWritten[i][c] # NaN
       /\ \A i \in 1..Len(als.buffer) : \A c \in 1..3 : als.buffer[i][c] # NaN
       /\ pc = "done" =>
             LET pts == AlsSourcePoints(file)
                 dropped == Cardinality(AlsNanPoints(file))
             IN /\ RowsWritten =
                       SelectSeq(pts, LAMBDA pt : \A c \in 1..3 : pt[c] # NaN)
                /\ Len(RowsWritten) = Len(pts) - dropped
                /\ als.expected_points - als.points_written = dropped
                /\ log[Len(log)].event = "finished"
                /\ log[Len(log)].filtered = dropped

\* C4: a line of three points, the elevation of one of them NaN and nothing
\* else: two points written, one filtered
C4_Witness ==
    /\ AlsDone /\ als.num_lines = 1 /\ als.points_per_line = 3
    /\ {k \in 1..Len(file.data) : file.data[k] = NaN} \in {{10}, {11}, {12}}
    /\ Len(RowsWritten) = 2
    /\ log[Len(log)].filtered = 1

\* C5: in each extractor session.create_table has been called exactly once
\* as soon as the first step of the extraction is done (and not at all
\* before), it is the first call the sink receives, and every
\* session.insert comes after it.
C5_TableDeclaredOnceFirst ==
    /\ Cardinality(CallsOf("create_table")) = IF pc = "create_table" THEN 0 ELSE 1
    /\ CallsOf("create_table") \subseteq {1}
    /\ \A i \in CallsOf("insert") : \E c \in CallsOf("create_table") : c < i

\* C5: a completed ALS run of three batches, the one declaration before them
C5_Witness ==
    /\ AlsDone
    /\ Cardinality(CallsOf("insert")) = 3
    /\ CallsOf("create_table") = {1}
    /\ \A i \in CallsOf("insert") : i > 1

\* the bytes of the file that the main product header (k = 0) and dataset
\* header k are read from
HeaderBlock(k) ==
    IF k = 0 THEN FileRead(file, 0, mph_bytes)
    ELSE FileRead(file, mph_bytes + sph_bytes + (k - 1) * dsh_bytes, dsh_bytes)

\* a text with a character outside the header encoding
NotAscii(text) == \E i \in 1..Len(text) : text[i] \notin 0..127

\* a header map lacks a number under key
LacksNumber(map, key) == key \notin DOMAIN map \/ ~int(map[key]).ok

\* the steps of the ASIRAS extraction at which a header fault shows: the
\* main product header is about to be read and does not decode; the
\* dataset headers are about to be read and NUM_DSD is absent or no
\* number, or one of the NUM_DSD headers does not decode; the parameters of
\* a selected dataset are about to be read and NUM_DSR or DS_OFFSET is
\* absent or no number
HeaderFault ==
    \/ pc = "mph" /\ NotAscii(HeaderBlock(0))
    \/ pc = "dsh" /\ LacksNumber(asiras.mph, dsh_count_key)
    \/ pc = "dsh" /\ ~LacksNumber(asiras.mph, dsh_count_key)
                  /\ \E k \in 1..int(asiras.mph[dsh_count_key]).value :
                        NotAscii(HeaderBlock(k))
    \/ pc = "params" /\ ~asiras.asiras_dsh.none
                     /\ \/ LacksNumber(asiras.asiras_dsh.map, dsh_blocks_key)
                        \/ LacksNumber(asiras.asiras_dsh.map, dsh_offset_key)

HeaderErrorSteps == {"mph", "dsh_count", "dsh", "num_blocks", "start_bytes"}
HeaderErrorTypes == {"UnicodeDecodeError", "KeyError", "ValueError"}

\* C6: a step of the ASIRAS extraction taken at a header fault ends the
\* extraction with an error; and whenever the extraction has ended with
\* an error of a header step, the sink has received the table declaration
\* and no insert, and no block has been read.
C6_HeaderErrorsAbort ==
    /\ [][(loader = "asiras" /\ HeaderFault) =>
             /\ pc' = "error"
             /\ error'.at \in HeaderErrorSteps
             /\ error'.type \in HeaderErrorTypes
             /\ session' = session]_vars
    /\ [](loader = "asiras" /\ pc = "error" /\ error.at \in HeaderErrorSteps =>
             /\ Inserts = <<>>
             /\ CallsOf("create_table") = {1}
             /\ asiras.block_num = 0)

\* C6: the record count of the selected dataset header is no number:
\* ValueError, the table declared, nothing inserted
C6_Witness ==
    /\ loader = "asiras" /\ pc = "error"
    /\ error = [type |-> "ValueError", at |-> "num_blocks"]
    /\ ~asiras.asiras_dsh.none
    /\ asiras.asiras_dsh.map[dsh_blocks_key] = Codes("many")
    /\ Len(session) = 1 /\ session[1].op = "create_table"

\* the selection step of the ASIRAS extraction has completed
Selected ==
    /\ loader = "asiras"
    /\ pc \notin {"create_table", "mph", "dsh", "select"}
    /\ pc = "error" => error.at \notin {"mph", "dsh_count", "dsh", "select"}

\* the record count and the offset have been read as well
ParamsRead ==
    /\ Selected
    /\ pc # "params"
    /\ pc = "error" => error.at \notin {"num_blocks", "start_bytes", "seek"}

\* dataset header j of the parsed table has a name with the prefix
HasPrefix(j) ==
    /\ dsh_name_key \in DOMAIN asiras.dsh[j]
    /\ startswith(asiras.dsh[j][dsh_name_key], dsh_asiras_prefix)

\* C7: once the selection has completed, the selected dataset header is
\* the first of the parsed table, in table order, whose DS_NAME starts
\* with the prefix (none is selected only when no name has it), and once
\* the parameters are read num_blocks and start_bytes are the numbers of
\* NUM_DSR and DS_OFFSET of that entry.
C7_FirstMatchSelected ==
    /\ Selected =>
         IF asiras.asiras_dsh.none
         THEN \A j \in 1..Len(asiras.dsh) : ~HasPrefix(j)
         ELSE LET i == asiras.asiras_dsh.index
              IN /\ i \in 1..Len(asiras.dsh)
                 /\ asiras.asiras_dsh.map = asiras.dsh[i]
                 /\ HasPrefix(i)
                 /\ \A j \in 1..(i - 1) : ~HasPrefix(j)
    /\ ParamsRead =>
         LET first == CHOOSE i \in 1..Len(asiras.dsh) :
                         HasPrefix(i) /\ \A j \in 1..(i - 1) : ~HasPrefix(j)
         IN /\ asiras.num_blocks = int(asiras.dsh[first][dsh_blocks_key]).value
            /\ asiras.start_bytes = int(asiras.dsh[first][dsh_offset_key]).value

\* C7: the table XYZ_INFO, ASI_L1B, ASI_L2: the second entry is selected
\* and the count and offset are its own, which differ from the third's
C7_Witness ==
    /\ ParamsRead /\ Len(asiras.dsh) = 3
    /\ \A j \in 1..3 : dsh_name_key \in DOMAIN asiras.dsh[j]
    /\ [j \in 1..3 |-> asiras.dsh[j][dsh_name_key]]
          = <<Codes("XYZ_INFO"), Codes("ASI_L1B"), Codes("ASI_L2")>>
    /\ asiras.asiras_dsh.map = asiras.dsh[2]
    /\ asiras.num_blocks = int(asiras.dsh[2][dsh_blocks_key]).value
    /\ asiras.num_blocks # int(asiras.dsh[3][dsh_blocks_key]).value
    /\ asiras.start_bytes # int(asiras.dsh[3][dsh_offset_key]).value

\* the dataset headers have been parsed
TableParsed ==
    /\ loader = "asiras"
    /\ pc \notin {"create_table", "mph", "dsh"}
    /\ pc = "error" => error.at \notin {"mph", "dsh_count", "dsh"}

\* C8 (as claimed): when no entry of the parsed table has a name that
\* starts with the prefix, the extraction is over after the selection
\* step, with the ValueError of that step.
C8_DatasetNotFoundError ==
    (/\ TableParsed /\ pc # "select"
     /\ \A j \in 1..Len(asiras.dsh) : dsh_name_key \in DOMAIN asiras.dsh[j]
     /\ \A j \in 1..Len(asiras.dsh) : ~HasPrefix(j))
        => /\ pc = "error"
           /\ error = [type |-> "ValueError", at |-> "select"]

\* the header maps parsed so far, each with the text it was parsed from
ParsedHeaders ==
    (IF loader = "asiras" /\ pc \notin {"create_table", "mph"}
        /\ (pc = "error" => error.at # "mph")
     THEN {[map |-> asiras.mph, text |-> HeaderBlock(0)]} ELSE {})
    \cup {[map |-> asiras.dsh[j], text |-> HeaderBlock(j)] : j \in 1..Len(asiras.dsh)}

RequiredKeys == {dsh_count_key, dsh_name_key, dsh_blocks_key, dsh_offset_key}

\* C9 (as claimed): a required key is found in a parsed header map
\* whatever the letter case of the key in the header text: when the map has
\* a key that is the required key but for the case of its letters, the
\* lookup of the required key succeeds.
C9_CaseInsensitiveLookup ==
    \A h \in ParsedHeaders : \A key \in RequiredKeys :
        (\E k \in DOMAIN h.map : UpperCase(k) = key) => key \in DOMAIN h.map

Contains(text, part) ==
    \E i \in 1..(Len(text) - Len(part) + 1) : SubSeq(text, i, i + Len(part) - 1) = part

\* C9 (amended): the keys of a parsed header map are the keys as the header
\* text writes them, in their own letter case, and the lookup of a required
\* key is exact: where the map lacks the key in upper case, the step that
\* looks it up ends the extraction with KeyError, also when the map has
\* the key in another case.
C9_KeysAsWritten ==
    /\ [](\A h \in ParsedHeaders : \A k \in DOMAIN h.map : Contains(h.text, k \o Codes("=")))
    /\ [][(loader = "asiras" /\ pc = "dsh" /\ dsh_count_key \notin DOMAIN asiras.mph) =>
             pc' = "error" /\ error' = [type |-> "KeyError", at |-> "dsh_count"]]_vars
    /\ [][(loader = "asiras" /\ pc = "select" /\ asiras.dsh # <<>>
              /\ \A j \in 1..Len(asiras.dsh) : dsh_name_key \notin DOMAIN asiras.dsh[j]) =>
             pc' = "error" /\ error' = [type |-> "KeyError", at |-> "select"]]_vars
    /\ [][(loader = "asiras" /\ pc = "params" /\ ~asiras.asiras_dsh.none
              /\ dsh_blocks_key \notin DOMAIN asiras.asiras_dsh.map) =>
             pc' = "error" /\ error' = [type |-> "KeyError", at |-> "num_blocks"]]_vars
    /\ [][(loader = "asiras" /\ pc = "params" /\ ~asiras.asiras_dsh.none
              /\ dsh_blocks_key \in DOMAIN asiras.asiras_dsh.map
              /\ int(asiras.asiras_dsh.map[dsh_blocks_key]).ok
              /\ dsh_offset_key \notin DOMAIN asiras.asiras_dsh.map) =>
             pc' = "error" /\ error' = [type |-> "KeyError", at |-> "start_bytes"]]_vars

\* C9: the main product header with the line num_dsd="3": the map has the
\* key num_dsd with the value 3, and the lookup of NUM_DSD has failed
C9_Witness ==
    /\ loader = "asiras" /\ pc = "error"
    /\ error = [type |-> "KeyError", at |-> "dsh_count"]
    /\ Codes("num_dsd") \in DOMAIN asiras.mph
    /\ asiras.mph[Codes("num_dsd")] = Codes("3")
    /\ dsh_count_key \notin DOMAIN asiras.mph

\* C10: a read of one row of a group from a position with the bytes of the
\* row before the end of the file leaves the cursor the declared width of
\* the group's fields further, filler fields included; a completed read of
\* a group moves the cursor by rows_per_block times that width (after the
\* fixed seek, for the third group); and after k blocks the cursor is at
\* start_bytes + k * BlockBytes, whatever the bytes read.
C10_StrideIsDeclaredWidth ==
    /\ [](loader = "asiras" /\ pc = "loop" =>
            /\ cursor = asiras.start_bytes + asiras.block_num * BlockBytes
            /\ \A g \in 1..Len(fields_format) :
                  cursor + GroupStride(g) <= file.size =>
                     ReadRow(file, cursor, _get_group_read_rules(args.byte_order)[g],
                             <<>>).cursor = cursor + GroupStride(g))
    /\ [][(loader = "asiras" /\ pc = "loop" /\ pc' = "mg") =>
             cursor' = cursor + rows_per_block * GroupStride(1)]_vars
    /\ [][(loader = "asiras" /\ pc = "mg" /\ pc' = "mwg") =>
             cursor' = cursor + rows_per_block * GroupStride(2)]_vars
    /\ [][(loader = "asiras" /\ pc = "mwg" /\ pc' = "check") =>
             cursor' = cursor + cg_bytes + awg_bytes + rows_per_block * GroupStride(3)]_vars

\* C10: two blocks read from a payload, the cursor two blocks after its start
C10_Witness ==
    /\ loader = "asiras" /\ pc = "loop" /\ asiras.block_num = 2
    /\ asiras.start_bytes > 0
    /\ cursor = asiras.start_bytes + 2 * BlockBytes
    /\ Len(asiras.buffer) + RowsInserted = 2 * rows_per_block

\* The field at which the input ends: the first field, in reading order,
\* whose declared width is not all in the file.  at names it as RaiseAt
\* does, the span of the two groups that are skipped being field 0 of
\* group 3; saved tells a field that the code unpacks from a filler or a
\* span it seeks over; next is the first unpacked field at or after it.
AlsCutField ==
    LET k == Len(file.data) \div file.header[3]
    IN [exists |-> k < 4 * file.header[2],
        at |-> <<k \div 4, k % 4>>,
        saved |-> k % 4 # 0,
        next |-> <<k \div 4, IF k % 4 = 0 THEN 1 ELSE k % 4>>]

AsirasCutField ==
    LET off == Max(0, file.size - asiras.start_bytes)
        b == (off \div BlockBytes) + 1
        w == off % BlockBytes
        g == IF w < GroupOffset(2) THEN 1 ELSE IF w < GroupOffset(3) THEN 2 ELSE 3
        skipped == GroupOffset(2) + rows_per_block * GroupStride(2)
        x == w - GroupOffset(g)
        r == (x \div GroupStride(g)) + 1
        fields == fields_format[g]
        i == CHOOSE i \in 1..Len(fields) :
                /\ FieldOffset(g, i) <= x % GroupStride(g)
                /\ i < Len(fields) => FieldOffset(g, i + 1) > x % GroupStride(g)
        j == CHOOSE j \in i..Len(fields) :
                /\ fields[j].name # skip_field
                /\ \A m \in i..(j - 1) : fields[m].name = skip_field
    IN IF w >= skipped /\ w < GroupOffset(3)
       THEN [exists |-> off < asiras.num_blocks * BlockBytes,
             at |-> <<b, 3, 1, 0>>, saved |-> FALSE,
             next |-> <<b, 3, 1, 1>>]
       ELSE [exists |-> off < asiras.num_blocks * BlockBytes,
             at |-> <<b, g, r, i>>,
             saved |-> fields[i].name # skip_field,
             next |-> <<b, g, r, j>>]

CutField == IF loader = "als" THEN AlsCutField ELSE AsirasCutField

ReadError == pc = "error" /\ error.type = "struct.error"

\* the rows of the lines or blocks that are whole in the file
WholeRecords ==
    IF loader = "als" THEN AlsSourceRecords(file)
    ELSE AsirasSourceRecords(file, asiras.start_bytes,
             Min(asiras.num_blocks,
                 Max(0, file.size - asiras.start_bytes) \div BlockBytes))

Buffered == IF loader = "als" THEN als.buffer ELSE asiras.buffer

\* C11 as stated: when the input ends inside a field, whether the code
\* unpacks it, reads it as a filler or seeks over it, the extraction is
\* aborted by an error raised at that field.
C11_ErrorAtCutField ==
    ReadError => CutField.exists /\ error.field = CutField.at

\* C11, amended: when the input ends inside a field the extraction never
\* returns normally; it is aborted by the error of the first unpacked field
\* at or after that field (a filler read and a seek do not raise), and then
\* the rows handed to the sink and the rows buffered are the rows of the
\* lines or blocks that are whole in the file, none of them padded and none
\* of them from the line or block that was cut.
C11_ErrorAtNextSavedField ==
    /\ CutField.exists => pc # "done"
    /\ ReadError =>
          /\ CutField.exists
          /\ error.field = CutField.next
          /\ RowsWritten \o Buffered = WholeRecords

C11_Witness ==
    /\ loader = "asiras" /\ ReadError
    /\ ~CutField.saved
    /\ RowsWritten # <<>>
    /\ Buffered = <<>>
    /\ error.at = "mg"

\* the number of values of a flat row: the saved fields of the three groups
SavedFields ==
    SumSeq([g \in 1..3 |->
        Len(SelectSeq(fields_format[g], LAMBDA fld : fld.name # skip_field))])

\* the block loop of the ASIRAS extraction has ended
AsirasLoopEnded ==
    /\ loader = "asiras"
    /\ \/ pc = "done"
       \/ pc = "loop" /\ asiras.block_num >= asiras.num_blocks
       \/ pc = "error" /\ error.at = "finish"

\* C12 as stated: one flat row is appended for each of the NUM_DSR records
\* of the selected dataset, so a completed extraction has written NUM_DSR
\* rows.
C12_OneRowPerRecord ==
    AsirasDone => RowsInserted = asiras.num_blocks

\* C12, amended: each of the NUM_DSR records of the selected dataset is a
\* block of rows_per_block rows, and rows_per_block flat rows are appended
\* for it, row r the values of row r of its time-orbit, measurements and
\* multilooked waveform groups; when the block loop has ended the rows
\* written are NUM_DSR * rows_per_block.
C12_RowsPerBlock ==
    /\ loader = "asiras" /\ pc = "check" =>
          /\ RowsInserted + Len(asiras.buffer) = asiras.block_num * rows_per_block
          /\ \A i \in 1..Len(asiras.buffer) : Len(asiras.buffer[i]) = SavedFields
    /\ AsirasLoopEnded => RowsInserted = asiras.num_blocks * rows_per_block

C12_Witness ==
    /\ AsirasDone /\ asiras.num_blocks = 2
    /\ RowsInserted = 2 * rows_per_block
    /\ \A i \in 1..Len(RowsWritten) : Len(RowsWritten[i]) = SavedFields

\* a call of lin_interp_from_first_max has returned
InterpDone == loader = "lin_interp_from_first_max" /\ pc = "done"

PulseLeftHalf ==
    /\ InterpDone /\ args.array = Pulse
    /\ args.threshold = Float(1, 2) /\ args.direction = LEFT

\* C13 as stated: for the row 0, 2, 4, 6, 8, 6, 4, 2, 0 and the threshold 0.5
\* (target 4) the leftward search returns index 3 as an integer index.
C13_PulseReturnsThree ==
    PulseLeftHalf => proc.return = Int64(3)

\* C13, amended: for that row and threshold the leftward search returns
\* index 2 as an integer index, because the value found there, 4, equals
\* the target (index 3 holds 6).
C13_PulseReturnsTwo ==
    PulseLeftHalf =>
        /\ proc.return = Int64(2)
        /\ FEq(Item(args.array, 2),
               FMul(Item(args.array, argmax(args.array)), args.threshold))
        /\ Item(args.array, 3) = F(6)

C13_Witness ==
    /\ PulseLeftHalf
    /\ argmax(args.array) = 4
    /\ proc.return.type = "int64"

\* the largest value of a row, the first index that holds it, and the
\* indices left of that index whose value is at most the target t * max,
\* the float64 product
RowMax(row) == CHOOSE v \in {row[k] : k \in 1..Len(row)} :
                  \A k \in 1..Len(row) : FLe(row[k], v)
FirstMax(row) == CHOOSE q \in 0..(Len(row) - 1) :
                    /\ FEq(Item(row, q), RowMax(row))
                    /\ \A k \in 0..(q - 1) : ~FEq(Item(row, k), RowMax(row))
LeftCrossings(row, t) ==
    {k \in 0..(FirstMax(row) - 1) : FLe(Item(row, k), FMul(RowMax(row), t))}
LastLeftCrossing(row, t) ==
    CHOOSE k \in LeftCrossings(row, t) : \A m \in LeftCrossings(row, t) : m <= k

\* the number (-1)^s * m * 2^e as it is, without a limit on the bits of m
Dyadic(s, m, e) ==
    IF m = <<>> THEN Zero(s)
    ELSE Only({ [c |-> "fin", s |-> s, m |-> ShiftRight(m, z), e |-> e + z]
              : z \in {LowZeros(m)} })

\* the product and the sum of two numbers as they are
ExactProduct(a, b) == Dyadic((a.s + b.s) % 2, Mul(a.m, b.m), a.e + b.e)
ExactSum(a, b) ==
    IF a.m = <<>> THEN b
    ELSE IF b.m = <<>> THEN a
    ELSE Only({ Only({ IF a.s = b.s THEN Dyadic(a.s, Add(p[1], p[2]), t[1])
                       ELSE IF t[2] >= 0 THEN Dyadic(a.s, Sub(p[1], p[2]), t[1])
                       ELSE Dyadic(b.s, Sub(p[2], p[1]), t[1])
                     : p \in {<<ShiftLeft(a.m, a.e - t[1]),
                                ShiftLeft(b.m, b.e - t[1])>>} })
              : t \in {<<Min(a.e, b.e), CmpAbs(a, b)>>} })

\* the value at x of the line through (i, row[i]) and (i + 1, row[i + 1]),
\* row[i] + (x - i) * (row[i + 1] - row[i]), in exact arithmetic
LineAt(row, i, x) ==
    ExactSum(Item(row, i),
             ExactProduct(ExactSum(x, F(-i)),
                          ExactSum(Item(row, i + 1), FNeg(Item(row, i)))))

\* a leftward call for a row of values >= 0 whose largest value is above 0
\* and first at an index >= 1, and a threshold 0 < t < 1 such that some
\* index left of that index has a value <= t * max
LeftCrossingFound ==
    /\ InterpDone /\ args.direction = LEFT
    /\ FLt(F(0), args.threshold) /\ FLt(args.threshold, F(1))
    /\ \A k \in 1..Len(args.array) : FLe(F(0), args.array[k])
    /\ FLt(F(0), RowMax(args.array)) /\ FirstMax(args.array) >= 1
    /\ LeftCrossings(args.array, args.threshold) # {}

\* C14 as stated: for a row of non-negative values whose maximum is
\* positive and first at index q >= 1, and a threshold 0 < t < 1 such that
\* some index left of q has a value <= t * max, the leftward result r is a
\* number with i <= r <= i + 1 <= q, i the last such index; the line through
\* (i, row[i]) and (i + 1, row[i + 1]) has exactly the value t * max at r;
\* and r is the integer i when row[i] = t * max.
C14_LeftCrossing ==
    LeftCrossingFound
    => LET row == args.array
           target == FMul(RowMax(row), args.threshold)
           i == LastLeftCrossing(row, args.threshold)
           r == proc.return.v
       IN /\ proc.return.type \in {"int64", "float64"}
          /\ FLe(F(i), r) /\ FLe(r, F(i + 1)) /\ i + 1 <= FirstMax(row)
          /\ FEq(LineAt(row, i, r), target)
          /\ FEq(Item(row, i), target) => proc.return = Int64(i)

\* C14, amended: under the same conditions the leftward result r is a
\* number with i <= r <= i + 1 <= q; r is the integer i when row[i] is the
\* float64 product t * max, and otherwise the float64
\* (i + 1) - (row[i + 1] - t * max) / (row[i + 1] - row[i]), each operation
\* rounded to the nearest float64: the place where the line has the value
\* t * max, up to that rounding.
C14_LeftCrossingRounded ==
    LeftCrossingFound
    => LET row == args.array
           target == FMul(RowMax(row), args.threshold)
           i == LastLeftCrossing(row, args.threshold)
           r == proc.return.v
       IN /\ proc.return.type \in {"int64", "float64"}
          /\ FLe(F(i), r) /\ FLe(r, F(i + 1)) /\ i + 1 <= FirstMax(row)
          /\ FEq(Item(row, i), target) => proc.return = Int64(i)
          /\ ~FEq(Item(row, i), target) =>
                proc.return = Float64(FSub(F(i + 1),
                                 FDiv(FSub(Item(row, i + 1), target),
                                      FSub(Item(row, i + 1), Item(row, i)))))

\* C14: the row 0, 1 with the threshold 0.1: 1 - 0.1 is rounded to 0.9, and
\* the result 1 - 0.9 is the float64 0.09999999999999998, under 0.1, where
\* the line has not the value 0.1
C14_Witness ==
    /\ LeftCrossingFound
    /\ args.array = ndarray(<<0, 1>>) /\ args.threshold = Float(1, 10)
    /\ LeftCrossings(args.array, args.threshold) = {0}
    /\ proc.return = Float64(FSub(F(1), Float(9, 10)))
    /\ FLt(proc.return.v, Float(1, 10))
    /\ ~FEq(LineAt(args.array, 0, proc.return.v), Float(1, 10))

\* the first local maximum of a row: the first index whose value is above
\* the values next to it; a row without such an index (its largest value
\* is on a plateau) has it where its largest value is first
LocalPeaks(row) ==
    {k \in 0..(Len(row) - 1) :
        /\ k = 0 \/ FLt(Item(row, k - 1), Item(row, k))
        /\ k = Len(row) - 1 \/ FLt(Item(row, k + 1), Item(row, k))}

FirstLocalMax(row) ==
    IF LocalPeaks(row) = {} THEN FirstMax(row)
    ELSE CHOOSE q \in LocalPeaks(row) : \A k \in LocalPeaks(row) : q <= k

\* C15: the retracker anchors on the first local maximum of the row: the
\* target value and the leftward search of a call are those of the first
\* local maximum, also when a later peak of the row is higher.
C15_AnchorsOnFirstLocalMax ==
    InterpDone /\ args.direction = LEFT =>
        proc.return = interp_from(args.array, args.threshold, LEFT,
                                  FirstLocalMax(args.array)).return

\* C17: when the largest value of the row is at its first index the
\* leftward search returns 0, and when it is at its last index the
\* rightward search returns that index, len - 1; neither interpolates nor
\* reports that there is no crossing.
C17_PeakAtEdge ==
    InterpDone =>
        /\ args.direction = LEFT /\ FirstMax(args.array) = 0
              => proc.return = Int64(0)
        /\ args.direction = RIGHT /\ FirstMax(args.array) = Len(args.array) - 1
              => proc.return = Int64(Len(args.array) - 1)

\* a call of create_tfmra_table, and the index that the leftward search
\* returns for row r of its waveform and its c-th threshold
Tfmra == loader = "create_tfmra_table"
TfmraIndex(r, c) ==
    lin_interp_from_first_max(args.scaled_waveform[r],
                              args.retracker_thresholds[c], LEFT).return

\* the elevations computed so far, by threshold
TfmraColumns ==
    IF ~Tfmra \/ proc = NoLocals THEN <<>>
    ELSE IF pc = "done" THEN Transpose(proc.elevations,
                                       Len(args.retracker_thresholds))
    ELSE proc.columns

\* C16: when the leftward search finds no index left of the peak with a
\* value <= t * max for a row and a threshold, calc_tfmra_elevation does
\* not raise; the elevation of that row and threshold is the undefined
\* value (nan), and the elevations of the other rows and thresholds are
\* there as they are when that row has a crossing.
C16_NoCrossingIsUndefined ==
    Tfmra =>
       /\ ~(pc = "error" /\ error.at = "calc_tfmra_elevation"
                         /\ error.type = "TypeError")
       /\ \A c \in 1..Len(TfmraColumns) : \A r \in 1..Len(args.scaled_waveform) :
             TfmraIndex(r, c) = ReturnNone => TfmraColumns[c][r] = nan

\* C18: the elevation of row r and threshold t is
\* first_bin_elvtn[r] - lin_interp_from_first_max(row r, t, LEFT) * bin_size,
\* computed from that row alone: it does not depend on the other rows of
\* the waveform, whatever the result of row 0 is, nor on the other
\* thresholds.
C18_ElevationOfRowAlone ==
    Tfmra =>
       \A c \in 1..Len(TfmraColumns) : \A r \in 1..Len(args.scaled_waveform) :
          TfmraIndex(r, c) # ReturnNone =>
             TfmraColumns[c][r] = FSub(args.first_bin_elvtn[r],
                                       FMul(TfmraIndex(r, c).v, args.bin_size))

\* C20: a call of create_tfmra_table for n observations and T thresholds,
\* the table not being there, writes n * T rows; every pair of an id and a
\* threshold is in exactly one row, and the elevation of that row is the one
\* that calc_tfmra_elevation computed for that observation and threshold.
C20_WritesAllPairs ==
    Tfmra /\ pc \in {"done", "error"} /\ ~args.table_exists =>
       LET n == Len(args.scaled_waveform)
           T == Len(args.retracker_thresholds)
       IN /\ Len(RowsWritten) = n * T
          /\ \A r \in 1..n : \A c \in 1..T :
                \E k \in 1..Len(RowsWritten) :
                   /\ RowsWritten[k] = <<F(args.waveform_id[r]),
                                         args.retracker_thresholds[c],
                                         proc.elevations[r][c]>>
                   /\ \A m \in 1..Len(RowsWritten) :
                         /\ RowsWritten[m][1] = RowsWritten[k][1]
                         /\ RowsWritten[m][2] = RowsWritten[k][2]
                         => m = k

\* a call of create_wshape_table that has computed the peakiness values
WshapeComputed ==
    loader = "create_wshape_table" /\ pc \in {"width", "write", "done", "error"}
                                   /\ proc # NoLocals

\* the whole number that a float64 x holds, for an x under 2^15
Whole(x) == IF x.m = <<>> THEN 0 ELSE (1 - 2 * x.s) * x.m[1] * 2 ^ x.e

\* the sum of the bins of a row, and of its bins at the given offsets from
\* its first peak
RowSum(row) == SumSeq([k \in 1..Len(row) |-> Whole(row[k])])
WindowSum(row, offsets) ==
    SumSeq([k \in 1..Len(offsets) |->
        IF FirstMax(row) + offsets[k] \in 0..(Len(row) - 1)
        THEN Whole(Item(row, FirstMax(row) + offsets[k])) ELSE 0])

\* C19: in create_wshape_table, when the denominator of a peakiness value
\* is zero (the sum of the row for ppeak, the sum of the window left or
\* right of the peak, an empty window too, for ppeak_left and ppeak_right),
\* the value is nan, got from the denominator guarded against zero, and no
\* division by zero is made; a row of zeros has the three values nan.
C19_ZeroDenominatorGuarded ==
    WshapeComputed =>
       /\ \A k \in 1..Len(args.scaled_waveform) :
             LET row == args.scaled_waveform[k]
             IN /\ RowSum(row) = 0 => proc.ppeak_full[k] = nan
                /\ WindowSum(row, ppeak_indices_left) = 0 => proc.ppeak_left[k] = nan
                /\ WindowSum(row, ppeak_indices_right) = 0 => proc.ppeak_right[k] = nan
       /\ \A e \in 1..Len(log) : log[e].event # "RuntimeWarning"

\* the fields of fields_format that are not fillers, in group order and in
\* field order within each group
SavedFieldList ==
    SelectSeq(Flatten(fields_format), LAMBDA fld : fld.name # skip_field)

\* the integer numeral under a value of a row, which is scaled or is not
Unscaled(v, scale) == IF scale = "1" THEN v ELSE v.raw

\* the value v of a row is what a field fld gives: a numeral of the field's
\* read type, scaled when the field has a scale, and a list of count of
\* them when the field has a count above 1
ValueOfField(v, fld) ==
    IF fld.count > 1
    THEN /\ Len(v) = fld.count
         /\ \A k \in 1..fld.count :
               /\ Unscaled(v[k], fld.scale).type = fld.read_type
               /\ fld.scale # "1" => v[k].scale = fld.scale
    ELSE /\ Unscaled(v, fld.scale).type = fld.read_type
         /\ fld.scale # "1" => v.scale = fld.scale

\* C21: every flat row the ASIRAS extractor hands to the sink, or holds in
\* its buffer, has one value for each field of fields_format that is not a
\* filler, in group order (time-orbit, measurements, multilooked waveform)
\* and in field order within the group; the target columns of every insert
\* and the columns declared after the id column are the names of the same
\* fields in the same order; a field with count > 1 is carried as a list of
\* count values and declared with the suffix [count], any other as one value
\* and declared with its bare type.
C21_RowMatchesColumns ==
    loader = "asiras" =>
       /\ \A c \in CallsOf("create_table") :
             /\ Len(session[c].columns) = Len(SavedFieldList) + 1
             /\ \A j \in 1..Len(SavedFieldList) :
                   LET fld == SavedFieldList[j]
                   IN session[c].columns[j + 1] =
                         <<fld.name,
                           IF fld.count > 1
                           THEN fld.write_type \o "[" \o ToString(fld.count) \o "]"
                           ELSE fld.write_type>>
       /\ \A c \in CallsOf("insert") :
             /\ session[c].target_cols =
                   [j \in 1..Len(SavedFieldList) |-> SavedFieldList[j].name]
             /\ \A i \in 1..Len(session[c].rows) :
                   Len(session[c].rows[i]) = Len(session[c].target_cols)
       /\ \A i \in 1..Len(RowsWritten \o asiras.buffer) :
             LET row == (RowsWritten \o asiras.buffer)[i]
             IN /\ Len(row) = Len(SavedFieldList)
                /\ \A j \in 1..Len(SavedFieldList) :
                      ValueOfField(row[j], SavedFieldList[j])

\* C21: a completed run of two blocks; the waveform of a written row is a
\* list of 256 values under a column declared bigint[256], its velocity a
\* list of 3 scaled values under double precision[3]
C21_Witness ==
    /\ AsirasDone /\ asiras.num_blocks = 2
    /\ Len(RowsWritten) = 2 * rows_per_block
    /\ Len(RowsWritten[1]) = 41
    /\ session[1].columns[11] = <<"velocity_xyz", "double precision[3]">>
    /\ Len(RowsWritten[1][10]) = 3
    /\ RowsWritten[1][10][1].scale = "1e-3"
    /\ session[1].columns[37] = <<"ml_power_echo", "bigint[256]">>
    /\ Len(RowsWritten[rows_per_block + 1][36]) = 256

\* the lines of an ALS file the line loop has gone through
AlsLinesProcessed == als.line_num

\* C22 as stated: a line spans five arrays of points_per_line 8-byte
\* values, so that after k lines the cursor is k * 5 * 8 * points_per_line
\* bytes after the start of the data.
C22_CursorFiveArrays ==
    (loader = "als" /\ pc = "loop") =>
        cursor = file.header[1] + 4 * file.header[2]
                    + AlsLinesProcessed * (5 * 8 * file.header[3])

\* C22, amended: a line spans four arrays of points_per_line 8-byte values
\* (time, latitude, longitude, elevation); after k lines the cursor is at
\* header_bytes + 4 * num_lines + k * 4 * 8 * points_per_line; the time
\* array is passed over, and the rows of the line take their latitude,
\* longitude and elevation from the second, third and fourth array.
C22_CursorFourArrays ==
    (loader = "als" /\ pc = "loop") =>
        /\ cursor = file.header[1] + 4 * file.header[2]
                       + AlsLinesProcessed * (4 * 8 * file.header[3])
        /\ LET p == file.header[3]
               pts == [j \in 1..(AlsLinesProcessed * p) |->
                         LET at == (cursor - AlsDataStart(file)) \div 8
                                      - 4 * p * (AlsLinesProcessed - ((j - 1) \div p))
                             i == ((j - 1) % p) + 1
                         IN <<file.data[at + 3 * p + i],
                              file.data[at + 2 * p + i],
                              file.data[at + p + i]>>]
           IN RowsWritten \o als.buffer =
                 SelectSeq(pts, LAMBDA pt : \A c \in 1..3 : pt[c] # NaN)

\* C22: two lines of three points read from a file of seven lines: the
\* cursor 2 * 96 bytes after the start of the data
C22_Witness ==
    /\ loader = "als" /\ pc = "loop"
    /\ file.header = <<36, 7, 3>>
    /\ AlsLinesProcessed = 2
    /\ cursor = 36 + 28 + 192
    /\ Len(RowsWritten \o als.buffer) = 6

\* the anchor of a call of aggregate_relative_indices: the first index of
\* the largest, or of the smallest, value of the array
AnchorIndex ==
    CHOOSE s \in 0..(Len(args.array) - 1) :
        LET better(a, b) == IF args.starting_index_func = "argmax"
                            THEN FLt(b, a) ELSE FLt(a, b)
        IN /\ \A k \in 0..(Len(args.array) - 1) :
                 ~better(args.array[k + 1], args.array[s + 1])
           /\ \A k \in 0..(s - 1) : better(args.array[s + 1], args.array[k + 1])

\* the offsets of the call that stay in the array, in list order
OffsetsInBounds ==
    SelectSeq(args.indices,
              LAMBDA o : 0 <= AnchorIndex + o /\ AnchorIndex + o < Len(args.array))

\* C23: aggregate_relative_indices applies the aggregation to exactly the
\* values array[s + o] of the offsets o with 0 <= s + o < len(array), in the
\* order of the list, s being the anchor index; an offset that falls before
\* index 0 is dropped and does not count from the end of the array, and with
\* no offset in bounds the aggregation is applied to an empty selection.
C23_SelectsOffsetsInBounds ==
    (loader = "aggregate_relative_indices" /\ pc = "done") =>
        LET selection == [k \in 1..Len(OffsetsInBounds) |->
                             args.array[AnchorIndex + OffsetsInBounds[k] + 1]]
        IN /\ args.aggregate_func = "list" => proc.return = selection
           /\ args.aggregate_func = "sum" => proc.return = F(RowSum(selection))
           /\ OffsetsInBounds = <<>> =>
                 proc.return = IF args.aggregate_func = "list" THEN <<>> ELSE F(0)

\* C23: the offsets 2, -2, 1, -1 about the peak in the second of three bins:
\* the two offsets out of the array dropped, the bins after and before the
\* peak returned in that order
C23_Witness ==
    /\ loader = "aggregate_relative_indices" /\ pc = "done"
    /\ args.array = ndarray(<<1, 2, 0>>) /\ args.indices = <<2, -2, 1, -1>>
    /\ args.starting_index_func = "argmax" /\ args.aggregate_func = "list"
    /\ proc.return = ndarray(<<0, 1>>)

\* create_wshape_table has computed the return widths
WidthsComputed ==
    loader = "create_wshape_table" /\ pc \in {"write", "done"} /\ proc # NoLocals

\* a row that reads the same from both ends
Symmetric(row) == \A k \in 1..Len(row) : row[k] = row[Len(row) + 1 - k]

\* C24: in create_wshape_table, for every row with both bounds of the signal
\* defined, rwidth_left is (peak_index - left bound) * bin_size, rwidth_right
\* is (right bound - peak_index) * bin_size, both are >= 0, rwidth is their
\* sum (right bound - left bound) * bin_size, and the two widths of a row
\* symmetric about its peak are equal.
C24_ReturnWidths ==
    WidthsComputed =>
       \A k \in 1..Len(args.scaled_waveform) :
          LET p == F(proc.peak_index[k])
              l == proc.return_bound_left[k]
              r == proc.return_bound_right[k]
          IN (l # nan /\ r # nan) =>
                /\ proc.rwidth_left[k] = FMul(FSub(p, l), args.bin_size)
                /\ proc.rwidth_right[k] = FMul(FSub(r, p), args.bin_size)
                /\ FLe(F(0), proc.rwidth_left[k])
                /\ FLe(F(0), proc.rwidth_right[k])
                /\ proc.rwidth_full[k] = FMul(FSub(r, l), args.bin_size)
                /\ Symmetric(args.scaled_waveform[k]) =>
                      proc.rwidth_left[k] = proc.rwidth_right[k]

\* the locals of the extractor that is running
Locals == IF loader = "als" THEN als ELSE asiras

\* its counter of the rows buffered
RowsBuffered == IF loader = "als" THEN als.points_buffered ELSE asiras.rows_buffered

\* its counter of the lines or blocks buffered
UnitsBuffered == IF loader = "als" THEN als.lines_buffered ELSE asiras.blocks_buffered

\* C25: in both extractors, right after every session.insert the buffer of
\* the extractor is empty and its counters of buffered rows and of buffered
\* lines or blocks are zero; the list handed to the sink is not the list the
\* later steps append to, and no call already made on the sink is changed
\* by a later step; and at every point the counter of buffered rows is the
\* length of the buffer.
C25_BufferDiscardedAfterInsert ==
    /\ [][Len(Inserts') > Len(Inserts) =>
             /\ Buffered' = <<>>
             /\ RowsBuffered' = 0
             /\ UnitsBuffered' = 0]_vars
    /\ [][IsPrefix(session, session')]_vars
    /\ [](loader \in {"als", "asiras"} =>
             /\ \A i \in 1..Len(Inserts) : Inserts[i].list # Locals.buffer_id
             /\ RowsBuffered = Len(Buffered))

\* C25: rows are buffered again after a flush, in a list that is not the
\* one the sink was handed
C25_Witness ==
    /\ loader = "asiras" /\ pc = "check"
    /\ Len(Inserts) = 1 /\ Len(Inserts[1].rows) = 2 * rows_per_block
    /\ Len(asiras.buffer) = rows_per_block /\ asiras.rows_buffered = rows_per_block
    /\ Inserts[1].list # asiras.buffer_id

\* the extraction was called in this load step, and it has left by an
\* exception
ExtractionCalled == CallsOf("create_table") # {}
ExtractionAborted == ExtractionCalled /\ pc = "error"

\* the positions in the log of the summary of a finished extraction
FinishedReports == {i \in 1..Len(log) : log[i].event = "finished"}

\* C26: load_asiras and load_als call session.commit only after
\* extract_to_database has returned normally: when the extraction has left
\* by an exception (a header error, a truncated record, an error of the
\* sink) the sink has received no commit, whatever was declared or inserted
\* before; and when an extraction was called and a commit has been received,
\* the extraction had made its final report and all its inserts before it.
C26_CommitAfterExtraction ==
    loader \in {"als", "asiras"} =>
       /\ ExtractionAborted => CallsOf("commit") = {}
       /\ (ExtractionCalled /\ CallsOf("commit") # {}) =>
             /\ FinishedReports # {}
             /\ pc \in {"geom_col", "loaded"}
             /\ \A c \in CallsOf("commit") :
                   \A i \in CallsOf("insert") \cup CallsOf("create_table") : i < c

\* C26: an extraction that the sink ends at its second insert: one batch
\* handed over and a table declared, and no commit
C26_Witness ==
    /\ loader = "asiras" /\ ExtractionAborted
    /\ error.at = "insert"
    /\ Cardinality(CallsOf("insert")) = 1
    /\ CallsOf("commit") = {}

\* an extraction of an input that declares no record has ended: an ALS file
\* with num_lines = 0, an ASIRAS dataset with NUM_DSR = 0 whose block loop
\* has been passed
ZeroRecordsEnded ==
    \/ /\ loader = "als" /\ pc \in {"done", "error"}
       /\ file.header[2] = 0
    \/ /\ loader = "asiras" /\ asiras.num_blocks = 0
       /\ pc = "done" \/ (pc = "error" /\ error.at = "finish")

\* C27: for an input whose record count is zero each extractor declares the
\* table, calls session.insert not once, and returns normally after a final
\* summary of zero written.
C27_ZeroRecords ==
    ZeroRecordsEnded =>
       /\ pc = "done"
       /\ Cardinality(CallsOf("create_table")) = 1
       /\ CallsOf("insert") = {}
       /\ log # <<>>
       /\ log[Len(log)].event = "finished"
       /\ IF loader = "als"
          THEN log[Len(log)].lines_written = 0 /\ log[Len(log)].points_written = 0
          ELSE log[Len(log)].blocks_written = 0 /\ log[Len(log)].rows_written = 0

\* the result of the leftward search in the row of the call with another
\* threshold
LeftResult(t) == lin_interp_from_first_max(args.array, t, LEFT).return

\* the retracked elevation of an index for a first bin at the elevation 11:
\* first_bin_elvtn - index * bin_size (tools.py:145-146)
Elevation(r) == FSub(F(11), FMul(r, bin_size))

\* C28: for a row of values >= 0 with a largest value > 0 first at index
\* p, and thresholds t1 <= t2 for both of which the leftward search finds
\* a crossing, the results satisfy r(t1) <= r(t2) <= p, the result of the
\* threshold 1 is p, and the elevation first_bin_elvtn - r * bin_size of
\* t2 is at or below the one of t1.
C28_MonotoneInThreshold ==
    (/\ InterpDone /\ args.direction = LEFT
     /\ \A k \in 1..Len(args.array) : FLe(F(0), args.array[k])
     /\ FLt(F(0), RowMax(args.array))
     /\ proc.return # ReturnNone)
    => /\ LeftResult(F(1)) = Int64(FirstMax(args.array))
       /\ \A t2 \in Thresholds :
             FLe(args.threshold, t2) =>
                \A r2 \in {LeftResult(t2)} :
                   r2 # ReturnNone
                   => /\ FLe(proc.return.v, r2.v)
                      /\ FLe(r2.v, F(FirstMax(args.array)))
                      /\ FLe(Elevation(r2.v), Elevation(proc.return.v))

\* C28: the row 0, 0, 2 with the threshold 0.3: the results 1.3, 1.5 and 2
\* of the thresholds 0.3, 0.5 and 1 rise within one pair of bins
C28_Witness ==
    /\ InterpDone /\ args.direction = LEFT
    /\ args.array = ndarray(<<0, 0, 2>>) /\ args.threshold = Float(3, 10)
    /\ proc.return = Float64(Float(13, 10))
    /\ LeftResult(Float(1, 2)) = Float64(Float(3, 2))
    /\ LeftResult(F(1)) = Int64(2)
    /\ Elevation(Float(3, 2)) # Elevation(Float(13, 10))
    /\ FLe(Elevation(Float(3, 2)), Elevation(Float(13, 10)))

\* the positions of the calls of session.create_table and session.insert
\* for a table
WritesTo(table) ==
    {k \in 1..Len(session) :
        session[k].op \in {"create_table", "insert"} /\ session[k].table = table}

\* C29: load_asiras and load_als do not call extract_to_database when the
\* output table is there: nothing is declared or inserted and no step of
\* the extraction is taken.  waveform_processing calls create_table and
\* insert only for the output tables that were not there at its start,
\* once each; it reads the source table only when one of the three was not
\* there; and when it has returned normally all three are there.
C29_SkipExistingOutputs ==
    /\ (loader \in {"als", "asiras"} /\ args.table_exists) =>
          /\ pc \in {"load", "geom_col", "loaded"}
          /\ CallsOf("create_table") = {} /\ CallsOf("insert") = {}
          /\ \A i \in 1..Len(log) : log[i].event # "extracting"
    /\ loader = "waveform_processing" =>
          /\ \A k \in 1..Len(output_tables) :
                /\ args.exists[output_tables[k]] => WritesTo(output_tables[k]) = {}
                /\ Cardinality(WritesTo(output_tables[k])) <= 2
          /\ CallsOf("select") # {} =>
                \E k \in 1..Len(output_tables) : ~args.exists[output_tables[k]]
          /\ pc = "done" =>
                \A k \in 1..Len(output_tables) : TableExists(output_tables[k])

\* C29: a call of waveform_processing on a database that has the tfmra
\* table only has returned: the source table was read once, the other two
\* tables were declared and filled, and nothing was written to the first
C29_Witness ==
    /\ loader = "waveform_processing" /\ pc = "done"
    /\ args.exists[tfmra_table]
    /\ ~args.exists[wshape_table] /\ ~args.exists[wscaled_table]
    /\ Cardinality(CallsOf("select")) = 1
    /\ WritesTo(tfmra_table) = {}
    /\ Cardinality(WritesTo(wshape_table)) = 2
    /\ Cardinality(WritesTo(wscaled_table)) = 2

\* C30: new_session has closed the session when it is left, however its
\* body ended; a commit of new_session itself is there only when
\* commit_on_success is true and the body ended without an exception; and
\* every execute_query, insert or cursor request made after Session.close
\* raises InterfaceError and sends nothing to the database.
C30_ClosedSessionRefuses ==
    loader = "new_session" =>
       /\ pc = "closed" =>
             /\ ~proc.connected
             /\ \E k \in CallsOf("close") : session[k].by = "new_session"
       /\ \A k \in CallsOf("commit") :
             session[k].by = "new_session" =>
                args.commit_on_success /\ proc.body_exit = "normal"
       /\ \A k \in 1..Len(proc.calls) :
             proc.calls[k].closed =>
                proc.calls[k].raised = "InterfaceError" /\ proc.calls[k].sent = 0
====
